---- MODULE Spec2Model ----
(***************************************************************************)
(* Convenient Discussions: the comment re-identification engine            *)
(* (Comment#searchInCode, Comment#locateInCode) and the source mutation    *)
(* engine (Comment#modifyCode) of src/js/Comment.js.                       *)
(*                                                                         *)
(* SpecLocate  the locator over the list of signatures of a page           *)
(* SpecModify  the mutator over page code as a sequence of characters      *)
(* SpecThank   the edit attribution search (Comment#findAddingEdit) as     *)
(*             Comment#thank drives it                                     *)
(* SpecBoot    BootProcess#execute of src/js/BootProcess.js with the page  *)
(*             parse (processComments, processSections)                    *)
(* SpecApp     app() of src/js/app.js                                      *)
(* SpecToc     toc.addNewSections                                          *)
(* SpecLayers  the layers, hover highlight and flashes of a comment        *)
(***************************************************************************)
EXTENDS Integers, Sequences, FiniteSets, TLC

VARIABLES
  signatures,   \* the signatures of the source page's code, in page order
  target,       \* the comment being located (or the commentData passed along)
  inCode,       \* Comment#inCode: the cached location, or Null
  lastCall,     \* outcome of the last locateInCode call
  getCodeCall,  \* outcome of the last getCode on this page code: "none", "ok", "failed"
  pageCode,     \* the page's wikitext, a sequence of one-character strings
  comment,      \* the Comment object whose code is modified
  thisInCode,   \* the located-comment data handed to modifyCode
  modified,     \* outcome of the last modifyCode call
  revisions,    \* the revisions by the author around the comment's date
  compareResps, \* the state of each revision's compare request
  addingEdit,   \* Comment#addingEdit: the cached revision (its revid), or Null
  search,       \* the state of the findAddingEdit call
  thankButton,  \* "idle", "pending" or "thanked"
  thankStep,    \* where thank() is: "idle", "searching", "confirming", "posting"
  thanks,       \* the keys (revisions) of the stored thanks
  apiPosts,     \* the 'thank' requests posted (their rev)
  notification, \* what the last step passed to mw.notify, or Null
  rootElement,  \* the headings and signatures of the page, document order
  targets,      \* BootProcess#targets: headings and signatures, document order
  comments,     \* the comments registered (CommentStatic.add), by target index
  sections,     \* the sections registered (SectionStatic.add), by target index
  consoleErrors, \* what console.error was called with
  hooksFired,   \* the mw.hook events fired in the current run
  bootStep,     \* the position of the boot process
  firstRun,     \* BootProcess#firstRun
  pageFlags,    \* controller.doesPageExist(), controller.isDefinitelyTalkPage()
  talkPage,     \* controller.isTalkPage()
  loadingOverlay, \* whether the loading overlay is shown
  eventListeners, \* how many times addEventListeners() was called
  isRunning,    \* cd.isRunning
  appRuns,      \* the invocations of app(), each with where it is
  launched,     \* how many times the 'launched' hook was fired
  goScheduled,  \* how many times go() was scheduled
  tocSettings,  \* cd.settings.modifyToc and whether the page has a TOC
  tocSections,  \* the sections array handed to toc.addNewSections
  tocItems,     \* the TOC items added for sections that are not rendered
  tocCall,      \* "none", "returned" (nothing done) or "done"
  underlay,     \* whether Comment#underlay (and $underlay) exists
  animatedBackground, \* what $animatedBackground holds: "none", "current", "removed"
  isHovered,    \* Comment#isHovered
  isTarget,     \* Comment#isTarget
  editForm,     \* whether Comment#editForm exists
  classes,      \* the types whose classes the layers carry
  animateBackBound,   \* Comment#animateBackBound: the bound animateBack, or Null
  unhighlightTimeout, \* the pending timer's function, or Null
  animation,    \* the animation running on $animatedBackground, or Null
  orphanAnimations,   \* animations running on elements $animatedBackground no longer holds
  isMoved       \* what the last configureLayers() returned: "none", "null", "true", "false"

locateVars == <<signatures, target, inCode, lastCall, getCodeCall>>
modifyVars == <<pageCode, comment, thisInCode, modified>>
thankVars ==
  <<revisions, compareResps, addingEdit, search, thankButton, thankStep, thanks, apiPosts,
    notification>>
bootVars ==
  <<rootElement, targets, comments, sections, consoleErrors, hooksFired, bootStep, firstRun,
    pageFlags, talkPage, loadingOverlay, eventListeners>>

appVars == <<isRunning, appRuns, launched, goScheduled>>
tocVars == <<tocSettings, tocSections, tocItems, tocCall>>
layerVars ==
  <<underlay, animatedBackground, isHovered, isTarget, editForm, classes, animateBackBound,
    unhighlightTimeout, animation, orphanAnimations, isMoved>>
pageVars == <<appVars, tocVars, layerVars>>

vars == <<locateVars, modifyVars, thankVars, bootVars, pageVars>>

\* JavaScript's null and undefined, where an object is expected.
Null == [null |-> TRUE]

-----------------------------------------------------------------------------
(* Bounds *)

\* Longest list of signatures on a page.
MaxSigs == 2

-----------------------------------------------------------------------------
(* Small helpers *)

Min(a, b) == IF a < b THEN a ELSE b
Max(a, b) == IF a > b THEN a ELSE b

\* String.prototype.startsWith on sequences.
StartsWith(s, p) == Len(p) <= Len(s) /\ SubSeq(s, 1, Len(p)) = p

\* The elements of a sequence.
Range(s) == {s[i] : i \in 1..Len(s)}

\* JavaScript's number coercion of a boolean in an arithmetic expression.
Num(b) == IF b THEN 1 ELSE 0

-----------------------------------------------------------------------------
(* The locator: Comment#searchInCode and Comment#locateInCode              *)

\* Scores are kept as integers, in units of 0.0001.
ScoreUnit == 10000

\* "matches.filter((match) => match.score > 2.5)"
ScoreThreshold == 25000

\* The value of hasHeadlineMatched for a candidate without a heading when the
\* target follows a heading.
NoHeadingPenalty == -5

Authors == {"A", "B", "<undated>"}

\* Timestamps are strings; <<1, 2>> has <<1>> as a proper prefix.
Timestamps == {<<1, 2>>, <<1>>, <<2>>}

\* Word overlap in tenths of the 0..1 ratio calculateWordOverlap returns.
WordOverlaps == {0, 5, 6}

\* The greatest word overlap, 1, in the same tenths.
FullWordOverlap == 10

\* What precedes a candidate's body: no heading, a heading whose headline is
\* the target section's, a heading with another headline.
Headings == {"none", "same", "other"}

\* A signature as extractSignatures yields it, with the two facts about the
\* text before it that searchInCode derives from the page code.
SigRecord(a, t, h, w) == [author |-> a, timestamp |-> t, heading |-> h, wordOverlap |-> w]

\* The filter without the author test.
IsSignatureMatchAnyAuthor(sig, c) ==
  c.timestamp = sig.timestamp
    \/ (c.timestamp # <<>> /\ StartsWith(c.timestamp, sig.timestamp))

\* The filter of searchInCode: signatures.filter(...)
IsSignatureMatch(sig, c) ==
  /\ (sig.author = c.author \/ sig.author = "<undated>")
  /\ (c.timestamp = sig.timestamp
        \/ (c.timestamp # <<>> /\ StartsWith(c.timestamp, sig.timestamp)))

\* Indices (1-based) of the signatures that survive the filter, in page order.
SignatureMatches(sigs, c) ==
  {i \in 1..Len(sigs) : IsSignatureMatch(sigs[i], c)}

\* The loop over previousComments for the match at 1-based index m (its
\* sequential id is m - 1). Returns the three flags the loop leaves behind.
RECURSIVE PreviousCommentsLoop(_, _, _, _, _)
PreviousCommentsLoop(sigs, c, m, i, acc) ==
  IF i >= Len(c.previousComments) THEN acc
  ELSE
    LET k == (m - 1) - 1 - i   \* signatures[match.id - 1 - i], 0-based
    IN IF k < 0 \/ k >= Len(sigs) THEN acc
       ELSE
         LET signature == sigs[k + 1]
             prev == c.previousComments[i + 1]
             matched == signature.timestamp = prev.timestamp
                          /\ signature.author = prev.authorName
             equal == IF acc.equal # "false"
                      THEN (IF sigs[m].timestamp = signature.timestamp
                               /\ sigs[m].author = signature.author
                            THEN "true" ELSE "false")
                      ELSE acc.equal
             acc2 == [matched |-> matched,
                      equal |-> equal,
                      one |-> IF i = 0 THEN matched ELSE acc.one]
         IN IF ~matched THEN acc2
            ELSE PreviousCommentsLoop(sigs, c, m, i + 1, acc2)

PreviousCommentsData(sigs, c, m) ==
  IF Len(c.previousComments) > 0
  THEN PreviousCommentsLoop(sigs, c, m, 0,
         [matched |-> FALSE, equal |-> "undefined", one |-> FALSE])
  ELSE [matched |-> (m - 1 = 0), equal |-> "undefined", one |-> (m - 1 = 0)]

\* hasHeadlineMatched with false in place of -5 for a candidate without a
\* heading.
HasHeadlineMatchedWithoutPenalty(sig, c) ==
  IF c.followsHeading
  THEN (IF sig.heading # "none" THEN Num(sig.heading = "same") ELSE 0)
  ELSE Num(sig.heading = "none")

\* hasHeadlineMatched: TRUE, FALSE or the number -5, as the number it is
\* coerced to in the score.
HasHeadlineMatched(sig, c) ==
  IF c.followsHeading
  THEN (IF sig.heading # "none" THEN Num(sig.heading = "same") ELSE NoHeadingPenalty)
  ELSE Num(sig.heading = "none")

\* BonusFactor without the "matches.length === 1" operand.
BonusFactorNoSingle(nMatches, w, id, prev, hm) ==
  IF w > 5 \/ (id # 0 /\ prev.matched /\ prev.equal # "true")
  THEN 1
  ELSE IF id = 0 /\ prev.matched THEN hm ELSE 0

\* The parenthesised disjunction that is multiplied by 2: JavaScript's ||
\* yields its first truthy operand, else its last one, so the -5 of
\* hasHeadlineMatched can come through.
BonusFactor(nMatches, w, id, prev, hm) ==
  IF nMatches = 1 \/ w > 5 \/ (id # 0 /\ prev.matched /\ prev.equal # "true")
  THEN 1
  ELSE IF id = 0 /\ prev.matched THEN hm ELSE 0

\* The score with the weights of the headline and of the previous comments
\* exchanged.
MatchScoreContextOverHeadline(nMatches, w, id, prev, hm, hasIdMatched) ==
  BonusFactor(nMatches, w, id, prev, hm) * 2 * ScoreUnit
    + w * (ScoreUnit \div 10)
    + hm * (ScoreUnit \div 2)
    + Num(prev.matched) * ScoreUnit
    + Num(hasIdMatched)

MatchScore(nMatches, w, id, prev, hm, hasIdMatched) ==
  BonusFactor(nMatches, w, id, prev, hm) * 2 * ScoreUnit
    + w * (ScoreUnit \div 10)
    + hm * ScoreUnit
    + Num(prev.matched) * (ScoreUnit \div 2)
    + Num(hasIdMatched)

\* The match object of searchInCode for the signature at 1-based index m.
MatchObject(sigs, c, m) ==
  LET prev == PreviousCommentsData(sigs, c, m)
      hm == HasHeadlineMatched(sigs[m], c)
      n == Cardinality(SignatureMatches(sigs, c))
  IN [id |-> m - 1,
      author |-> sigs[m].author,
      timestamp |-> sigs[m].timestamp,
      wordOverlap |-> sigs[m].wordOverlap,
      hasIdMatched |-> (c.id = m - 1),
      hasPreviousCommentsDataMatched |-> prev.matched,
      isPreviousCommentsDataEqual |-> (prev.equal = "true"),
      hasHeadlineMatched |-> hm,
      score |-> MatchScore(n, sigs[m].wordOverlap, c.id, prev, hm, c.id = m - 1)]

\* A set of indices as the sequence of them in increasing order.
RECURSIVE SortedSeq(_)
SortedSeq(S) ==
  IF S = {} THEN <<>>
  ELSE LET lo == CHOOSE x \in S : \A y \in S : x <= y
       IN <<lo>> \o SortedSeq(S \ {lo})

\* Every match with its score, before the threshold filter.
ScoredMatches(sigs, c) ==
  LET idx == SortedSeq(SignatureMatches(sigs, c))
  IN [j \in 1..Len(idx) |-> MatchObject(sigs, c, idx[j])]

PassesThreshold(match) == match.score > ScoreThreshold

\* searchInCode: the matches that pass the threshold, in page order.
SearchInCode(sigs, c) ==
  SelectSeq(ScoredMatches(sigs, c), PassesThreshold)

\* The forEach with the comparison turned round: the first match of the
\* least score.
RECURSIVE BestMatchLeast(_, _, _)
BestMatchLeast(matches, i, best) ==
  IF i > Len(matches) THEN best
  ELSE IF best = Null \/ matches[i].score < best.score
       THEN BestMatchLeast(matches, i + 1, matches[i])
       ELSE BestMatchLeast(matches, i + 1, best)

\* The forEach of locateInCode: the first match of the greatest score.
RECURSIVE BestMatch(_, _, _)
BestMatch(matches, i, best) ==
  IF i > Len(matches) THEN best
  ELSE IF best = Null \/ matches[i].score > best.score
       THEN BestMatch(matches, i + 1, matches[i])
       ELSE BestMatch(matches, i + 1, best)

\* locateInCode falling back to the best-scored candidate when none passes
\* the threshold.
LocateOutcomeWithFallback(sigs, c) ==
  LET bestMatch == BestMatch(SearchInCode(sigs, c), 1, Null)
      guess == BestMatch(ScoredMatches(sigs, c), 1, Null)
  IN IF bestMatch # Null THEN [status |-> "ok", match |-> bestMatch]
     ELSE IF guess # Null THEN [status |-> "ok", match |-> guess]
     ELSE [status |-> "error", type |-> "parse", code |-> "locateComment"]

\* The outcome of locateInCode: the located data or the CdError thrown.
LocateOutcome(sigs, c) ==
  LET bestMatch == BestMatch(SearchInCode(sigs, c), 1, Null)
  IN IF bestMatch = Null
     THEN [status |-> "error", type |-> "parse", code |-> "locateComment"]
     ELSE [status |-> "ok", match |-> bestMatch]

-----------------------------------------------------------------------------
(* SpecLocate *)

PreviousCommentKinds ==
  {[authorName |-> a, timestamp |-> <<1, 2>>] : a \in {"A", "B"}}

\* The sequential ids the target can have on the rendered page.
TargetIds == {0, 1, 2}

\* The comments the target can be: author A, timestamp <<1, 2>>, with the
\* last (up to two) comments before it, nearest first, as
\* cd.comments.slice(max(0, id - 2), id).reverse() gives them.
Targets ==
  {[author |-> "A", timestamp |-> <<1, 2>>, id |-> i, followsHeading |-> f,
    previousComments |-> p] :
      i \in TargetIds, f \in BOOLEAN,
      p \in UNION {[1..n -> PreviousCommentKinds] : n \in 0..2}}

IsTarget(c) == c \in Targets /\ Len(c.previousComments) = Min(c.id, 2)

\* The signatures a page can hold. A candidate carries the facts scoring
\* reads; for a signature the filter drops those facts are never read.
CandidateKinds ==
  {SigRecord("A", <<1, 2>>, h, w) : h \in Headings, w \in WordOverlaps}
  \cup {SigRecord("A", <<1, 2>>, "none", FullWordOverlap),
        SigRecord("A", <<1>>, "none", 6),
        SigRecord("<undated>", <<1, 2>>, "none", 0),
        SigRecord("<undated>", <<1>>, "none", 6)}

SigKinds ==
  CandidateKinds
  \cup {SigRecord("B", <<1, 2>>, "none", 0), SigRecord("A", <<2>>, "none", 0)}

NoCall == [status |-> "none"]

InitLocateVars ==
  /\ signatures = <<>>
  /\ inCode = Null
  /\ lastCall = NoCall
  /\ getCodeCall = "none"

IdleModifyVars ==
  /\ pageCode = <<>>
  /\ comment = Null
  /\ thisInCode = Null
  /\ modified = NoCall

IdleThankVars ==
  /\ revisions = <<>>
  /\ compareResps = <<>>
  /\ addingEdit = Null
  /\ search = NoCall
  /\ thankButton = "idle"
  /\ thankStep = "idle"
  /\ thanks = {}
  /\ apiPosts = {}
  /\ notification = Null

IdleBootVars ==
  /\ rootElement = <<>>
  /\ targets = <<>>
  /\ comments = <<>>
  /\ sections = <<>>
  /\ consoleErrors = <<>>
  /\ hooksFired = <<>>
  /\ bootStep = "idle"
  /\ firstRun = TRUE
  /\ pageFlags = [exists |-> TRUE, definitelyTalkPage |-> TRUE]
  /\ talkPage = TRUE
  /\ loadingOverlay = FALSE
  /\ eventListeners = 0

IdleAppVars ==
  /\ isRunning = FALSE
  /\ appRuns = <<>>
  /\ launched = 0
  /\ goScheduled = 0

IdleTocVars ==
  /\ tocSettings = [modifyToc |-> FALSE, hasToc |-> FALSE]
  /\ tocSections = <<>>
  /\ tocItems = <<>>
  /\ tocCall = "none"

IdleLayerVars ==
  /\ underlay = FALSE
  /\ animatedBackground = "none"
  /\ isHovered = FALSE
  /\ isTarget = FALSE
  /\ editForm = FALSE
  /\ classes = {}
  /\ animateBackBound = Null
  /\ unhighlightTimeout = Null
  /\ animation = Null
  /\ orphanAnimations = {}
  /\ isMoved = "none"

IdlePageVars == IdleAppVars /\ IdleTocVars /\ IdleLayerVars

IdleOtherVars == IdleThankVars /\ IdleBootVars /\ IdlePageVars

InitLocate ==
  /\ InitLocateVars
  /\ target \in {c \in Targets : IsTarget(c)}
  /\ IdleModifyVars
  /\ IdleOtherVars

\* The source page gains a signature (the page was edited and fetched again).
PageGainsSignature ==
  /\ Len(signatures) < MaxSigs
  /\ \E sig \in SigKinds : signatures' = Append(signatures, sig)
  /\ lastCall' = NoCall
  /\ getCodeCall' = "none"
  /\ UNCHANGED <<target, inCode>>
  /\ UNCHANGED <<modifyVars, thankVars, bootVars, pageVars>>

\* getCode(): the page's code is loaded and locateInCode() is called without
\* pageCode: inCode is reset, then set on success.
LocateInCode ==
  /\ LET out == LocateOutcome(signatures, target)
     IN /\ lastCall' = out @@ [pageCodeGiven |-> FALSE, snapshot |-> "none"]
        /\ inCode' = IF out.status = "ok" THEN out.match ELSE Null
        /\ getCodeCall' = IF out.status = "ok" THEN "ok" ELSE "failed"
  /\ UNCHANGED <<signatures, target>>
  /\ UNCHANGED <<modifyVars, thankVars, bootVars, pageVars>>

\* getCode(): loading the page's code fails, locateInCode() is not called.
GetCodeFailsLoading ==
  /\ getCodeCall' = "failed"
  /\ UNCHANGED <<signatures, target, inCode, lastCall>>
  /\ UNCHANGED <<modifyVars, thankVars, bootVars, pageVars>>

\* locateInCode(pageCode, commentData) with a snapshot of a page's code: the
\* result is returned, not cached.
LocateInCodeOf ==
  /\ LET out == LocateOutcome(signatures, target)
     IN lastCall' = out @@ [pageCodeGiven |-> TRUE, snapshot |-> "code"]
  /\ UNCHANGED <<signatures, target, inCode, getCodeCall>>
  /\ UNCHANGED <<modifyVars, thankVars, bootVars, pageVars>>

\* locateInCode('', commentData): `!pageCode` takes the empty string for no
\* pageCode, so the source page's code is searched and the result is cached.
LocateInCodeOfEmpty ==
  /\ LET out == LocateOutcome(signatures, target)
     IN /\ lastCall' = out @@ [pageCodeGiven |-> FALSE, snapshot |-> "empty"]
        /\ inCode' = IF out.status = "ok" THEN out.match ELSE Null
  /\ UNCHANGED <<signatures, target, getCodeCall>>
  /\ UNCHANGED <<modifyVars, thankVars, bootVars, pageVars>>

NextLocate ==
  \/ PageGainsSignature
  \/ LocateInCode
  \/ LocateInCodeOf

SpecLocate == InitLocate /\ [][NextLocate]_vars

\* The locator with the calls that fail before or instead of locating.
NextGetCode ==
  \/ PageGainsSignature
  \/ LocateInCode
  \/ LocateInCodeOf
  \/ GetCodeFailsLoading
  \/ LocateInCodeOfEmpty

SpecGetCode == InitLocate /\ [][NextGetCode]_vars

-----------------------------------------------------------------------------
(* Page code as a sequence of characters. Indices are JavaScript's: 0-based, *)
(* a range [from, to) excludes its end.                                      *)

NL == "\n"

\* The placeholders hideDistractingCode and the closed-discussion masking put
\* in place of hidden code.
X01 == "\\x01"
X02 == "\\x02"

\* [:*#]
IndentationChars == {":", "*", "#"}

\* cd.config.defaultIndentationChar
DefaultIndentationChar == ":"

\* A signature (author link and timestamp) is the one character "S": it is
\* what cd.g.TIMESTAMP_REGEXP finds. "<" and ">" open and close an HTML
\* comment ("<!--", "-->").
SignatureChar == "S"

\* String.prototype.slice(from, to) for 0 <= from.
Slice(s, from, to) == SubSeq(s, from + 1, Min(to, Len(s)))

\* String.prototype.slice(from).
SliceFrom(s, from) == SubSeq(s, from + 1, Len(s))

\* s.charAt(i), or "" past the end.
CharAt(s, i) == IF i >= 0 /\ i < Len(s) THEN s[i + 1] ELSE ""

\* Whether position i of s is the start of a line: "(?:^|\n)" just before it.
AtLineStart(s, i) == i = 0 \/ CharAt(s, i - 1) = NL

\* The index of the first NL at or after i, or Len(s): where ".*" stops.
RECURSIVE LineEnd(_, _)
LineEnd(s, i) ==
  IF i >= Len(s) \/ s[i + 1] = NL THEN Min(i, Len(s)) ELSE LineEnd(s, i + 1)

\* The index after the run of characters of set C that starts at i.
RECURSIVE RunEnd(_, _, _)
RunEnd(s, i, C) ==
  IF i < Len(s) /\ s[i + 1] \in C THEN RunEnd(s, i + 1, C) ELSE i

\* The index at which the run of characters of set C that ends just before
\* i starts.
RECURSIVE RunStart(_, _, _)
RunStart(s, i, C) ==
  IF i > 0 /\ s[i] \in C THEN RunStart(s, i - 1, C) ELSE i

\* "(=+)(.*?)\1[ \t\x01\x02]*\n" at i: a line that opens with "=", closes
\* with "=" (before trailing blanks and placeholders) and is ended by a line
\* break. Yields the index after the line break, or -1.
HeadingLineEnd(s, i) ==
  LET e == LineEnd(s, i)
      last == RunStart(s, e, {" ", X01, X02})
  IN IF CharAt(s, i) = "=" /\ e < Len(s) /\ last - i >= 2 /\ s[last] = "="
     THEN e + 1 ELSE -1

-----------------------------------------------------------------------------
(* The signatures of page code, and the data of a located comment          *)

\* extractSignatures: the first signature of every line, with the index its
\* comment's code starts at: 0, or the index after the previous signature's
\* line and the line breaks that follow it.
RECURSIVE ExtractSignaturesFrom(_, _, _)
ExtractSignaturesFrom(code, lineStart, commentStart) ==
  IF lineStart >= Len(code) THEN <<>>
  ELSE
    LET e == LineEnd(code, lineStart)
        q == RunEnd(code, lineStart, {ch \in Range(code) : ch # SignatureChar /\ ch # NL})
    IN IF q < e
       THEN LET next == RunEnd(code, e, {NL})
            IN <<[startIndex |-> q,
                  commentStartIndex |-> commentStart,
                  dirtyCode |-> <<SignatureChar>>]>>
                 \o ExtractSignaturesFrom(code, next, next)
       ELSE ExtractSignaturesFrom(code, e + 1, commentStart)

ExtractSignatures(code) == ExtractSignaturesFrom(code, 0, 0)

\* The match object searchInCode builds for a signature, before
\* adjustCommentBeginning.
SignatureToMatch(code, sig) ==
  [startIndex |-> sig.commentStartIndex,
   endIndex |-> sig.startIndex,
   signatureEndIndex |-> sig.startIndex + Len(sig.dirtyCode),
   signatureDirtyCode |-> sig.dirtyCode,
   code |-> Slice(code, sig.commentStartIndex, sig.startIndex)]

\* The greatest index p of code at a line start where a heading line
\* matches ("[^]*" is greedy), or -1.
LastHeadingStart(code) ==
  LET P == {p \in 0..(Len(code) - 1) : AtLineStart(code, p) /\ HeadingLineEnd(code, p) # -1}
  IN IF P = {} THEN -1 ELSE CHOOSE p \in P : \A q \in P : q <= p

\* Whether an index at or after i is a line break followed by a character
\* other than [:*#]: the lookahead "(?![^]*\n[^:*#])" fails at i.
OtherLineFollows(code, i) ==
  \E j \in i..(Len(code) - 2) : code[j + 1] = NL /\ code[j + 2] \notin IndentationChars

\* The least index p of code at a line start where indentation characters
\* stand and no line of other kind follows, or -1.
FirstIndentedLineStart(code) ==
  LET P == {p \in 0..(Len(code) - 1) :
              /\ AtLineStart(code, p)
              /\ code[p + 1] \in IndentationChars
              /\ ~OtherLineFollows(code, RunEnd(code, p, IndentationChars))}
  IN IF P = {} THEN -1 ELSE CHOOSE p \in P : \A q \in P : p <= q

\* replaceIndentationChars, for the indentation characters found at index
\* p of d.code: s is everything up to their end, before everything up to p.
ReplaceIndentationChars(c, d, p) ==
  LET charsEnd == RunEnd(d.code, p, IndentationChars)
      chars == Slice(d.code, p, charsEnd)
      numbered == NL \in Range(d.code) /\ chars[Len(chars)] = "#"
      cut == SubSeq(chars, 1, Len(chars) - 1)
      adjustedChars == IF ~numbered THEN chars
                       ELSE IF Len(cut) < c.level THEN cut \o <<":">> ELSE cut
      startIndexShift == IF numbered THEN charsEnd - 1 ELSE charsEnd
      remainder == IF numbered THEN <<"#">> ELSE <<>>
  IN [d EXCEPT !.originalIndentationChars = IF numbered THEN cut ELSE chars,
               !.indentationChars = adjustedChars,
               !.lineStartIndex = d.startIndex + p,
               !.startIndex = d.startIndex + startIndexShift,
               !.code = remainder \o SliceFrom(d.code, charsEnd)]

\* adjustCommentBeginning. No line of the pages modelled ends with a bare
\* timestamp or starts with one of cd.g.BAD_COMMENT_BEGINNINGS, so the two
\* loops over those patterns find nothing.
AdjustCommentBeginning(c, match) ==
  LET d0 == match @@ [lineStartIndex |-> match.startIndex,
                      headingMatch |-> FALSE,
                      headingStartIndex |-> -1,
                      originalIndentationChars |-> <<>>,
                      indentationChars |-> <<>>]
      h == LastHeadingStart(match.code)
  IN IF h # -1
     THEN LET len == HeadingLineEnd(match.code, h)
          IN [d0 EXCEPT !.headingMatch = TRUE,
                        !.headingStartIndex = match.startIndex + h,
                        !.startIndex = match.startIndex + len,
                        !.code = SliceFrom(match.code, len),
                        !.lineStartIndex = IF c.isOpeningSection
                                           THEN match.startIndex + h
                                           ELSE match.startIndex + len]
     ELSE IF c.level > 0
          THEN IF CharAt(d0.code, 0) \in IndentationChars
               THEN ReplaceIndentationChars(c, d0, 0)
               ELSE IF FirstIndentedLineStart(d0.code) # -1
                    THEN ReplaceIndentationChars(c, d0, FirstIndentedLineStart(d0.code))
                    ELSE d0
          ELSE d0

\* cd.config.signaturePrefixRegexp, applied to the end of the comment's code:
\* the white space before the signature, here the line breaks.
SignaturePrefixStart(code) == RunStart(code, Len(code), {NL, " "})

\* movePartsToSignature: what the signature prefix pattern matches at the
\* end of the code goes over to the signature. The pages modelled hold no
\* tags, "unsigned" markers or <small> wrappers, so the other patterns and
\* the smallWrappers loop find nothing.
MovePartsToSignature(d) ==
  LET p == SignaturePrefixStart(d.code)
      s == SliceFrom(d.code, p)
  IN [d EXCEPT !.code = Slice(d.code, 0, p),
               !.signatureDirtyCode = s \o d.signatureDirtyCode,
               !.endIndex = d.endIndex - Len(s)]

\* "\n([:*#]*[:*]).*$" on a string: the indentation characters, up to the
\* last ":" or "*" of them, that open its last line, when a line break
\* precedes that line; else <<>>.
LastLineIndentation(s) ==
  LET lineStart == RunStart(s, Len(s), Range(s) \ {NL})
      runEnd == RunEnd(s, lineStart, IndentationChars)
      e == RunStart(s, runEnd, {"#"})
  IN IF lineStart > 0 /\ e > lineStart THEN Slice(s, lineStart, e) ELSE <<>>

\* adjustCommentCodeData, for a comment that is not the user's own.
\* cd.config.spaceAfterIndentationChars is false: the pages modelled hold no
\* space after indentation characters.
AdjustCommentCodeData(c, originalData) ==
  LET d == MovePartsToSignature(originalData)
      d1 == d @@ [signatureCode |-> d.signatureDirtyCode, inSmallFont |-> FALSE]
      found == LastLineIndentation(d1.code \o d1.signatureDirtyCode)
      shorter == Len(found) < Len(d1.originalIndentationChars)
      prefix == SubSeq(d1.originalIndentationChars, Len(found) + 1,
                       Len(d1.originalIndentationChars))
      d2 == IF ~c.isOpeningSection /\ found # <<>> /\ shorter
            THEN [d1 EXCEPT !.code = prefix \o d1.code,
                            !.originalIndentationChars =
                               SubSeq(d1.originalIndentationChars, 1, Len(found)),
                            !.startIndex = d1.startIndex - Len(prefix)]
            ELSE d1
      replyIndentationChars ==
        IF ~c.isOpeningSection /\ found # <<>>
        THEN found ELSE d1.originalIndentationChars
  IN d2 @@ [replyIndentationChars |-> replyIndentationChars \o <<DefaultIndentationChar>>]

\* The located data of the comment that ends with the k-th signature of the
\* code (k from 1): what locateInCode yields when that signature is the best
\* match.
LocatedData(c, code, k) ==
  AdjustCommentCodeData(c,
    AdjustCommentBeginning(c, SignatureToMatch(code, ExtractSignatures(code)[k])))

-----------------------------------------------------------------------------
(* The mutator: Comment#modifyCode                                         *)

\* hideDistractingCode: an HTML comment becomes \x01, blanks and \x02, of the
\* same length in all.
RECURSIVE HideDistractingCodeFrom(_, _)
HideDistractingCodeFrom(code, i) ==
  IF i >= Len(code) THEN code
  ELSE IF code[i + 1] = "<" /\ \E j \in (i + 1)..(Len(code) - 1) : code[j + 1] = ">"
       THEN LET close == RunEnd(code, i + 1, Range(code) \ {">"})
            IN HideDistractingCodeFrom(
                 [n \in 1..Len(code) |->
                    IF n = i + 1 THEN X01
                    ELSE IF n = close + 1 THEN X02
                    ELSE IF n > i + 1 /\ n < close + 1 THEN " "
                    ELSE code[n]],
                 close + 1)
       ELSE HideDistractingCodeFrom(code, i + 1)

HideDistractingCode(code) == HideDistractingCodeFrom(code, 0)

\* The chunk after the comment taken up to the end of the page, whatever
\* headings follow.
NextSectionHeadingIndexIgnoringHeadings(code) == Len(code)

\* The index of the match of /\n+(=+).*?\1[ \t\x01\x02]*\n|$/: the first
\* line break of the run of them before the first heading line, or the
\* length of the code.
NextSectionHeadingIndex(code) ==
  LET P == {i \in 0..(Len(code) - 1) :
              code[i + 1] = NL /\ HeadingLineEnd(code, RunEnd(code, i, {NL})) # -1}
  IN IF P = {} THEN Len(code) ELSE CHOOSE i \in P : \A j \in P : i <= j

\* The alternatives of properPlaceRegexp that must end where the line break
\* at index n of the chunk stands: the comment's signature code, a line with
\* a timestamp, a line that starts with \x01 and goes on.
EndsProperLine(chunk, n, signatureCode) ==
  LET lineStart == RunStart(chunk, n, Range(chunk) \ {NL})
  IN \/ (n >= Len(signatureCode)
           /\ Slice(chunk, n - Len(signatureCode), n) = signatureCode)
     \/ \E q \in lineStart..(n - 1) : chunk[q + 1] = SignatureChar
     \/ (chunk[lineStart + 1] = X01 /\ n - lineStart >= 2)

\* properPlaceRegexp without its lookaheads: any line start would do.
ProperPlaceTailAnywhere(chunk, p, max) == TRUE

\* The end of properPlaceRegexp, at index p where a line starts: at most max
\* characters of [:*#\x01], then none of those nor a line break; or 1 to max
\* of them, then "#" allowed.
ProperPlaceTail(chunk, p, max) ==
  LET marks == IndentationChars \cup {X01}
      run == RunEnd(chunk, p, marks) - p
  IN \/ \E n \in 0..Min(max, run) : CharAt(chunk, p + n) \notin marks \cup {NL}
     \/ \E n \in 1..Min(max, run) : CharAt(chunk, p + n) \notin {":", "*", NL, X01}

\* The length of the first group of properPlaceRegexp, the shortest there is
\* ("[^]*?"), or -1 when the expression does not match.
ProperPlaceLength(chunk, signatureCode, max) ==
  LET E == {e \in 1..Len(chunk) :
              /\ chunk[e] = NL
              /\ EndsProperLine(chunk, e - 1, signatureCode)
              /\ ProperPlaceTail(chunk, RunEnd(chunk, e, {NL}), max)}
  IN IF E = {} THEN -1 ELSE CHOOSE e \in E : \A f \in E : e <= f

\* The first group of /\n([:*#]{2,}|#[:*#]*).*\n$/, or <<>>.
ChangedIndentationChars(between) ==
  IF Len(between) = 0 \/ between[Len(between)] # NL THEN <<>>
  ELSE
    LET n == Len(between) - 1
        lineStart == RunStart(between, n, Range(between) \ {NL})
        run == Slice(between, lineStart, RunEnd(between, lineStart, IndentationChars))
    IN IF lineStart = 0 THEN <<>>
       ELSE IF Len(run) >= 2 THEN run
       ELSE IF run = <<"#">> THEN run
       ELSE <<>>

\* ".replace(/:$/, cd.config.defaultIndentationChar)"
ReplaceLastColon(chars) ==
  IF Len(chars) > 0 /\ chars[Len(chars)] = ":"
  THEN SubSeq(chars, 1, Len(chars) - 1) \o <<DefaultIndentationChar>>
  ELSE chars

\* The "reply" part of modifyCode, were the changed indentation characters
\* not cut to the length of the reply indentation characters.
ReplyPlaceUnsliced(c, code, t) ==
  LET currentIndex == t.endIndex
      adjustedCode == HideDistractingCode(code)
      adjustedCodeAfter == SliceFrom(adjustedCode, currentIndex)
      chunkCodeAfterEndIndex ==
        currentIndex + NextSectionHeadingIndex(adjustedCodeAfter) + 1
      adjustedChunkCodeAfter == Slice(adjustedCode, currentIndex, chunkCodeAfterEndIndex)
      maxIndentationCharsLength == Len(t.replyIndentationChars) - 1
      len == ProperPlaceLength(adjustedChunkCodeAfter, t.signatureCode,
                               maxIndentationCharsLength)
      between0 == IF len = -1 THEN adjustedChunkCodeAfter
                  ELSE Slice(adjustedChunkCodeAfter, 0, len)
      between == IF c.isInSingleCommentTable
                    /\ StartsWith(SliceFrom(adjustedChunkCodeAfter, Len(between0)),
                                  <<"|", "}", NL>>)
                 THEN between0 \o <<"|", "}", NL>>
                 ELSE between0
      changed == ChangedIndentationChars(between)
  IN [currentIndex |-> currentIndex + Len(between),
      replyIndentationChars |->
        IF changed # <<>>
        THEN ReplaceLastColon(changed)
        ELSE t.replyIndentationChars]

\* The "reply" part of modifyCode, were the hotfix for a comment inside a
\* table left out.
ReplyPlaceWithoutTableHotfix(c, code, t) ==
  LET currentIndex == t.endIndex
      adjustedCode == HideDistractingCode(code)
      adjustedCodeAfter == SliceFrom(adjustedCode, currentIndex)
      chunkCodeAfterEndIndex ==
        currentIndex + NextSectionHeadingIndex(adjustedCodeAfter) + 1
      adjustedChunkCodeAfter == Slice(adjustedCode, currentIndex, chunkCodeAfterEndIndex)
      maxIndentationCharsLength == Len(t.replyIndentationChars) - 1
      len == ProperPlaceLength(adjustedChunkCodeAfter, t.signatureCode,
                               maxIndentationCharsLength)
      between0 == IF len = -1 THEN adjustedChunkCodeAfter
                  ELSE Slice(adjustedChunkCodeAfter, 0, len)
      between == between0
      changed == ChangedIndentationChars(between)
  IN [currentIndex |-> currentIndex + Len(between),
      replyIndentationChars |->
        IF changed # <<>>
        THEN ReplaceLastColon(Slice(changed, 0, Len(t.replyIndentationChars)))
        ELSE t.replyIndentationChars]

\* The "reply" part of modifyCode up to "currentIndex += ...": the index to
\* insert at and the reply indentation characters left in thisInCode.
\* cd.config.keepInSectionEnding is empty and the pages hold no closed
\* discussion templates.
ReplyPlace(c, code, t) ==
  LET currentIndex == t.endIndex
      adjustedCode == HideDistractingCode(code)
      adjustedCodeAfter == SliceFrom(adjustedCode, currentIndex)
      chunkCodeAfterEndIndex ==
        currentIndex + NextSectionHeadingIndex(adjustedCodeAfter) + 1
      adjustedChunkCodeAfter == Slice(adjustedCode, currentIndex, chunkCodeAfterEndIndex)
      maxIndentationCharsLength == Len(t.replyIndentationChars) - 1
      len == ProperPlaceLength(adjustedChunkCodeAfter, t.signatureCode,
                               maxIndentationCharsLength)
      between0 == IF len = -1 THEN adjustedChunkCodeAfter
                  ELSE Slice(adjustedChunkCodeAfter, 0, len)
      between == IF c.isInSingleCommentTable
                    /\ StartsWith(SliceFrom(adjustedChunkCodeAfter, Len(between0)),
                                  <<"|", "}", NL>>)
                 THEN between0 \o <<"|", "}", NL>>
                 ELSE between0
      changed == ChangedIndentationChars(between)
  IN [currentIndex |-> currentIndex + Len(between),
      replyIndentationChars |->
        IF changed # <<>>
        THEN ReplaceLastColon(Slice(changed, 0, Len(t.replyIndentationChars)))
        ELSE t.replyIndentationChars]

\* Section#locateInCode, for the section the comment opens: it starts at the
\* comment's heading and its content ends where the next heading line
\* starts, or with the page.
SectionInCode(code, t) ==
  LET adjustedCode == HideDistractingCode(code)
      from == HeadingLineEnd(adjustedCode, t.headingStartIndex)
      P == {p \in from..(Len(code) - 1) :
              AtLineStart(adjustedCode, p) /\ HeadingLineEnd(adjustedCode, p) # -1}
      contentEndIndex == IF P = {} THEN Len(code) ELSE CHOOSE p \in P : \A q \in P : p <= q
  IN [startIndex |-> t.headingStartIndex,
      contentEndIndex |-> contentEndIndex,
      code |-> Slice(code, t.headingStartIndex, contentEndIndex)]

\* repliesRegexp with the quantifier {n,}: a line of the comment's own
\* indentation would count as a reply.
RepliesMatchSameLevel(succeedingText, n) ==
  LET e == LineEnd(succeedingText, 0)
      p == RunEnd(succeedingText, e, {NL})
  IN /\ e >= 1
     /\ e < Len(succeedingText)
     /\ RunEnd(succeedingText, p, IndentationChars) - p >= n

\* repliesRegexp, "^.+\n+[:*#]{n + 1,}", on the text from the end of the
\* comment's code: the rest of that line, line breaks, then more than n
\* indentation characters.
RepliesMatch(succeedingText, n) ==
  LET e == LineEnd(succeedingText, 0)
      p == RunEnd(succeedingText, e, {NL})
  IN /\ e >= 1
     /\ e < Len(succeedingText)
     /\ RunEnd(succeedingText, p, IndentationChars) - p >= n + 1

CdError(code) == [status |-> "error", type |-> "parse", code |-> code]

Returned(newPageCode, codeBeforeInsertion, commentCode) ==
  [status |-> "ok", newPageCode |-> newPageCode,
   codeBeforeInsertion |-> codeBeforeInsertion, commentCode |-> commentCode]

\* modifyCode with action 'reply', were the new page code put together from
\* the code hideDistractingCode returns.
ModifyCodeReplyFromAdjusted(c, code, t, commentCode) ==
  LET currentIndex == ReplyPlace(c, code, t).currentIndex
      adjustedCode == HideDistractingCode(code)
      codeBeforeInsertion == Slice(adjustedCode, 0, currentIndex)
  IN Returned(codeBeforeInsertion \o commentCode \o SliceFrom(adjustedCode, currentIndex),
              codeBeforeInsertion, commentCode)

\* modifyCode with action 'reply'.
ModifyCodeReply(c, code, t, commentCode) ==
  LET currentIndex == ReplyPlace(c, code, t).currentIndex
      codeBeforeInsertion == Slice(code, 0, currentIndex)
  IN Returned(codeBeforeInsertion \o commentCode \o SliceFrom(code, currentIndex),
              codeBeforeInsertion, commentCode)

\* modifyCode with action 'edit', were the code after the insertion taken
\* from signatureEndIndex + 1 as it is when deleting.
ModifyCodeEditSkippingChar(c, code, t, commentCode) ==
  LET codeBeforeInsertion == Slice(code, 0, t.lineStartIndex)
      codeAfterInsertion == SliceFrom(code, t.signatureEndIndex + 1)
  IN Returned(codeBeforeInsertion \o commentCode \o codeAfterInsertion,
              codeBeforeInsertion, commentCode)

\* modifyCode with action 'edit' and no doDelete.
ModifyCodeEdit(c, code, t, commentCode) ==
  LET codeBeforeInsertion == Slice(code, 0, t.lineStartIndex)
      codeAfterInsertion == SliceFrom(code, t.signatureEndIndex)
  IN Returned(codeBeforeInsertion \o commentCode \o codeAfterInsertion,
              codeBeforeInsertion, commentCode)

\* modifyCode with doDelete, were the signatures of the section not counted.
ModifyCodeDeleteUncounted(c, code, t) ==
  IF c.isOpeningSection /\ t.headingStartIndex # -1
  THEN LET section == SectionInCode(code, t)
       IN Returned(Slice(code, 0, section.startIndex)
                     \o SliceFrom(code, section.contentEndIndex),
                   Null, Null)
  ELSE IF RepliesMatch(SliceFrom(code, t.endIndex), Len(t.indentationChars))
       THEN CdError("delete-repliesToComment")
       ELSE Returned(Slice(code, 0, t.lineStartIndex)
                       \o SliceFrom(code, t.signatureEndIndex + 1),
                     Null, Null)

\* modifyCode with action 'edit' and doDelete. codeBeforeInsertion and
\* commentCode stay undefined.
ModifyCodeDelete(c, code, t) ==
  IF c.isOpeningSection /\ t.headingStartIndex # -1
  THEN LET section == SectionInCode(code, t)
       IN IF Len(ExtractSignatures(section.code)) > 1
          THEN CdError("delete-repliesInSection")
          ELSE Returned(Slice(code, 0, section.startIndex)
                          \o SliceFrom(code, section.contentEndIndex),
                        Null, Null)
  ELSE IF RepliesMatch(SliceFrom(code, t.endIndex), Len(t.indentationChars))
       THEN CdError("delete-repliesToComment")
       ELSE Returned(Slice(code, 0, t.lineStartIndex)
                       \o SliceFrom(code, t.signatureEndIndex + 1),
                     Null, Null)

-----------------------------------------------------------------------------
(* SpecModify *)

\* Most lines of a page.
MaxLines == 3

\* The lines pages are made of: comments of levels 0 to 2, a comment under
\* two bullets, an indented and a plain line without signature, an empty
\* line, a heading, a signature on a line of its own, an HTML comment, an
\* item of a numbered list.
Lines ==
  {<<"x", "S">>, <<":", "x", "S">>, <<":", ":", "x", "S">>, <<"*", "*", "x", "S">>,
   <<":", "x">>, <<"x">>, <<>>, <<"=", "x", "=">>, <<"S">>, <<"<", "x", ">">>,
   <<"#", "x">>}

\* Lines joined by line breaks.
RECURSIVE Join(_)
Join(ls) ==
  IF Len(ls) = 0 THEN <<>>
  ELSE IF Len(ls) = 1 THEN ls[1]
  ELSE ls[1] \o <<NL>> \o Join(Tail(ls))

\* The pages: lines that each end with a line break. MediaWiki trims the end
\* of a page and the code of a page is kept with one line break added, so
\* the last line is not empty; nor is the first.
Pages ==
  {Join(ls) \o <<NL>> :
     ls \in {l \in UNION {[1..n -> Lines] : n \in 1..MaxLines} :
               l[1] # <<>> /\ l[Len(l)] # <<>>}}

\* The level the comment of the k-th signature is rendered at: the number of
\* indentation characters its signature's line starts with.
RenderedLevel(code, k) ==
  LET at == ExtractSignatures(code)[k].startIndex
      lineStart == RunStart(code, at, Range(code) \ {NL})
  IN RunEnd(code, lineStart, IndentationChars) - lineStart

\* The comments of a page: one for each signature, at level 0 or at the
\* level its signature's line is indented to. A comment at level 0 may open
\* its section, whether the heading stands in the code before it or comes
\* from elsewhere (modifyCode tests headingStartIndex for that).
CommentsOf(code) ==
  {[k |-> k, level |-> l, isOpeningSection |-> o, isInSingleCommentTable |-> FALSE] :
     k \in 1..Len(ExtractSignatures(code)), l \in 0..2, o \in BOOLEAN}

IsCommentOf(c, code) ==
  /\ c \in CommentsOf(code)
  /\ c.level \in {0, RenderedLevel(code, c.k)}
  /\ c.isOpeningSection => c.level = 0

\* The code a reply or an edit puts in.
CommentCodes == {<<":", "r", "S", NL>>}

InitModify ==
  /\ InitLocateVars
  /\ target = Null
  /\ pageCode \in Pages
  /\ comment \in {c \in CommentsOf(pageCode) : IsCommentOf(c, pageCode)}
  /\ thisInCode = Null
  /\ modified = NoCall
  /\ IdleOtherVars

\* Comment#getCode: the comment is located in the page code.
GetCode ==
  /\ thisInCode = Null
  /\ thisInCode' = LocatedData(comment, pageCode, comment.k)
  /\ UNCHANGED <<pageCode, comment, modified>>
  /\ UNCHANGED <<locateVars, thankVars, bootVars, pageVars>>

\* modifyCode({action: 'reply'}): thisInCode.replyIndentationChars is
\* assigned on the way.
Reply ==
  /\ thisInCode # Null
  /\ \E commentCode \in CommentCodes :
       modified' = ModifyCodeReply(comment, pageCode, thisInCode, commentCode)
                     @@ [action |-> "reply"]
  /\ thisInCode' = [thisInCode EXCEPT !.replyIndentationChars =
                      ReplyPlace(comment, pageCode, thisInCode).replyIndentationChars]
  /\ UNCHANGED <<pageCode, comment>>
  /\ UNCHANGED <<locateVars, thankVars, bootVars, pageVars>>

\* The code of the comment as it stands in the page, from the start of its
\* line to the end of its signature.
OwnCode(code, t) == Slice(code, t.lineStartIndex, t.signatureEndIndex)

\* modifyCode({action: 'edit'}), with new code or with the comment's own.
Edit ==
  /\ thisInCode # Null
  /\ \E commentCode \in CommentCodes \cup {OwnCode(pageCode, thisInCode)} :
       modified' = ModifyCodeEdit(comment, pageCode, thisInCode, commentCode)
                     @@ [action |-> "edit"]
  /\ UNCHANGED <<pageCode, comment, thisInCode>>
  /\ UNCHANGED <<locateVars, thankVars, bootVars, pageVars>>

\* modifyCode({action: 'edit', doDelete: true}).
Delete ==
  /\ thisInCode # Null
  /\ modified' = ModifyCodeDelete(comment, pageCode, thisInCode) @@ [action |-> "delete"]
  /\ UNCHANGED <<pageCode, comment, thisInCode>>
  /\ UNCHANGED <<locateVars, thankVars, bootVars, pageVars>>

NextModify ==
  \/ GetCode
  \/ Reply
  \/ Edit
  \/ Delete

SpecModify == InitModify /\ [][NextModify]_vars

-----------------------------------------------------------------------------
(* SpecModifyTable: the mutator on pages with tables *)

\* The lines of pages with tables: the start of a table, a cell with a
\* comment, a cell without, the end of a table, and comments of levels 0 and
\* 1 outside of tables.
TableLines ==
  {<<"{", "|">>, <<"|", "x", "S">>, <<"|", "x">>, <<"|", "}">>,
   <<"x", "S">>, <<":", "x", "S">>}

TablePages ==
  {Join(ls) \o <<NL>> : ls \in UNION {[1..n -> TableLines] : n \in 1..MaxLines}}

\* Whether a line of the code starts at index p with the two characters.
LineStartsWith(code, p, two) ==
  AtLineStart(code, p) /\ Slice(code, p, p + 2) = two

\* Comment#isInSingleCommentTable, as the parser sets it: the k-th signature
\* stands in a table that is open at it and holds no other signature.
InSingleCommentTable(code, k) ==
  LET at == ExtractSignatures(code)[k].startIndex
      Opens == {p \in 0..at : LineStartsWith(code, p, <<"{", "|">>)}
      open == CHOOSE p \in Opens : \A q \in Opens : q <= p
      Closes == {p \in at..Len(code) : LineStartsWith(code, p, <<"|", "}">>)}
      close == IF Closes = {} THEN Len(code)
               ELSE CHOOSE p \in Closes : \A q \in Closes : p <= q
  IN /\ Opens # {}
     /\ ~\E p \in open..at : LineStartsWith(code, p, <<"|", "}">>)
     /\ Cardinality({i \in open..(close - 1) : code[i + 1] = SignatureChar}) = 1

\* The comments of a page with tables: as CommentsOf, with
\* isInSingleCommentTable as the page has it.
TableCommentsOf(code) ==
  {[c EXCEPT !.isInSingleCommentTable = InSingleCommentTable(code, c.k)] :
     c \in {d \in CommentsOf(code) : IsCommentOf(d, code) /\ ~d.isOpeningSection}}

InitModifyTable ==
  /\ InitLocateVars
  /\ target = Null
  /\ pageCode \in {q \in TablePages : Len(ExtractSignatures(q)) > 0}
  /\ comment \in TableCommentsOf(pageCode)
  /\ thisInCode = Null
  /\ modified = NoCall
  /\ IdleOtherVars

SpecModifyTable == InitModifyTable /\ [][NextModify]_vars

-----------------------------------------------------------------------------
(* The edit attribution search: Comment#findAddingEdit, as Comment#thank     *)
(* drives it. Times are seconds relative to the comment's date (which has    *)
(* no seconds); word overlaps are tenths. A revision is known by its index   *)
(* in the list of revisions (its revid).                                     *)

MaxRevisions == 2

\* revision.timestamp: getRevisions() asks for the edits by the author from 2
\* minutes before to 2 minutes after the comment's date.
RevisionTimestamps == {-90, 30, 60}

\* The 30 seconds added to the comment's date.
HalfMinute == 30

\* calculateWordOverlap() = 1
FullOverlap == 10

Abs(n) == IF n < 0 THEN -n ELSE n

\* What the compare request of a revision answers when it answers. diff is
\* "none" (no compare.body), "noAdded" (no line matches the regexp of added
\* lines) or "added". For added lines: the overlap of the whole added text
\* and of its best part with the comment's text, whether the added text holds
\* "{{", whether parseCode() fails on it and the overlap of the parsed text.
Diff(d, f, b, t, pf, p) ==
  [diff |-> d, fullTextWordOverlap |-> f, bestDiffPartWordOverlap |-> b,
   templates |-> t, parseFails |-> pf, parsedWordOverlap |-> p]

DiffKinds ==
  {Diff("none", 0, 0, FALSE, FALSE, 0),
   Diff("noAdded", 0, 0, FALSE, FALSE, 0),
   Diff("added", 0, 0, FALSE, FALSE, 0),
   Diff("added", 4, 4, FALSE, FALSE, 0),
   Diff("added", 4, 6, FALSE, FALSE, 0),
   Diff("added", 6, 10, TRUE, FALSE, 0),
   Diff("added", 6, 4, TRUE, FALSE, 4),
   Diff("added", 4, 4, TRUE, FALSE, 10),
   Diff("added", 4, 4, TRUE, TRUE, 0)}

\* The answers of getRevisions(): rvdir is 'newer'.
RevisionLists ==
  {r \in UNION {[1..n -> [timestamp : RevisionTimestamps, compare : DiffKinds]] :
                  n \in 0..MaxRevisions} :
     \A i \in 1..(Len(r) - 1) : r[i].timestamp <= r[i + 1].timestamp}

HasAddedText(revision) == revision.compare.diff = "added"

\* Math.max(fullTextWordOverlap, bestDiffPartWordOverlap)
RawWordOverlap(revision) ==
  Max(revision.compare.fullTextWordOverlap, revision.compare.bestDiffPartWordOverlap)

\* wordOverlap < 1 && diffOriginalText.includes('{{')
NeedsParsing(revision) ==
  RawWordOverlap(revision) < FullOverlap /\ revision.compare.templates

\* The catch around parseCode().
ParseThrows(revision) ==
  HasAddedText(revision) /\ NeedsParsing(revision) /\ revision.compare.parseFails

\* wordOverlap of the match pushed for the revision.
WordOverlapOf(revision) ==
  IF NeedsParsing(revision)
  THEN revision.compare.parsedWordOverlap
  ELSE RawWordOverlap(revision)

\* Math.abs(thisCommentTimestamp - timestamp)
DateProximity(revision) == Abs(HalfMinute - revision.timestamp)

\* The matches the loop over compareResps pushes, in the revisions' order.
Matches(revs) ==
  LET Match(i) ==
        [revision |-> i, wordOverlap |-> WordOverlapOf(revs[i]),
         dateProximity |-> DateProximity(revs[i])]
  IN SelectSeq([i \in 1..Len(revs) |-> Match(i)], LAMBDA m : HasAddedText(revs[m.revision]))

ReplacesByProximityFirst(match, bestMatch) ==
  \/ bestMatch = Null
  \/ match.dateProximity < bestMatch.dateProximity
  \/ /\ bestMatch # Null
     /\ match.dateProximity = bestMatch.dateProximity
     /\ match.wordOverlap > bestMatch.wordOverlap

Replaces(match, bestMatch) ==
  \/ bestMatch = Null
  \/ match.wordOverlap > bestMatch.wordOverlap
  \/ /\ bestMatch # Null
     /\ match.wordOverlap = bestMatch.wordOverlap
     /\ match.dateProximity > bestMatch.dateProximity

\* matches.forEach(...)
RECURSIVE BestMatchFrom(_, _, _)
BestMatchFrom(matches, i, bestMatch) ==
  IF i > Len(matches)
  THEN bestMatch
  ELSE BestMatchFrom(matches, i + 1,
                     IF Replaces(matches[i], bestMatch) THEN matches[i] ELSE bestMatch)

Thrown(type) == [status |-> "thrown", type |-> type]
ReturnedEdit(revision) == [status |-> "returned", revision |-> revision]

\* findAddingEdit() from the loop over the responses on, all requests having
\* been answered.
ScoredOutcome(revs) ==
  IF \E i \in 1..Len(revs) : ParseThrows(revs[i])
  THEN Thrown("parse")
  ELSE LET bestMatch == BestMatchFrom(Matches(revs), 1, Null)
       IN IF bestMatch = Null THEN Thrown("parse") ELSE ReturnedEdit(bestMatch.revision)

\* The types handleApiReject() gives the CdError it rejects with.
ApiRejectTypes == {"network", "api"}

\* thankFail(): the text by the error's type.
ThankFailText(e) ==
  CASE e.type = "parse" -> "error-diffnotfound-history"
    [] e.type = "network" -> "error-network"
    [] OTHER -> "thank-error"

ThankFailLeavingButtonPending(e) ==
  /\ notification' = [type |-> "error", text |-> ThankFailText(e)]
  /\ thankStep' = "idle"
  /\ UNCHANGED thankButton

ThankFail(e) ==
  /\ notification' = [type |-> "error", text |-> ThankFailText(e)]
  /\ thankButton' = "idle"
  /\ thankStep' = "idle"

\* thank() once findAddingEdit() has settled with `outcome`.
ThankAfterSearch(outcome) ==
  /\ search' = outcome
  /\ IF outcome.status = "thrown"
     THEN ThankFail(outcome) /\ UNCHANGED addingEdit
     ELSE /\ addingEdit' = [revid |-> outcome.revision]
          /\ thankStep' = "confirming"
          /\ notification' = Null
          /\ UNCHANGED thankButton

InitThank ==
  /\ InitLocateVars
  /\ target = Null
  /\ IdleModifyVars
  /\ IdleBootVars
  /\ IdlePageVars
  /\ revisions \in RevisionLists
  /\ compareResps = [i \in 1..Len(revisions) |-> "unsent"]
  /\ addingEdit = Null
  /\ search = NoCall
  /\ thankButton = "idle"
  /\ thankStep = "idle"
  /\ thanks = {}
  /\ apiPosts = {}
  /\ notification = Null

\* thank() up to the first await: the button is pending; the cached edit is
\* returned or the revisions are requested.
Thank ==
  /\ thankButton = "idle"
  /\ thankButton' = "pending"
  /\ IF addingEdit # Null
     THEN /\ search' = ReturnedEdit(addingEdit.revid)
          /\ thankStep' = "confirming"
     ELSE /\ search' = [status |-> "listing"]
          /\ thankStep' = "searching"
  /\ compareResps' = [i \in 1..Len(revisions) |-> "unsent"]
  /\ notification' = Null
  /\ UNCHANGED <<revisions, addingEdit, thanks, apiPosts>>
  /\ UNCHANGED <<locateVars, modifyVars, bootVars, pageVars>>

\* getRevisions() answers: one compare request per revision is posted.
RevisionsArrive ==
  /\ search.status = "listing"
  /\ compareResps' = [i \in 1..Len(revisions) |-> "pending"]
  /\ IF revisions = <<>>
     THEN ThankAfterSearch(ScoredOutcome(revisions))
     ELSE /\ search' = [status |-> "awaiting"]
          /\ UNCHANGED <<addingEdit, thankButton, thankStep, notification>>
  /\ UNCHANGED <<revisions, thanks, apiPosts>>
  /\ UNCHANGED <<locateVars, modifyVars, bootVars, pageVars>>

\* getRevisions() fails.
RevisionsFail ==
  /\ search.status = "listing"
  /\ \E type \in ApiRejectTypes :
       /\ search' = Thrown(type)
       /\ ThankFail(Thrown(type))
  /\ UNCHANGED <<revisions, compareResps, addingEdit, thanks, apiPosts>>
  /\ UNCHANGED <<locateVars, modifyVars, bootVars, pageVars>>

\* A compare request is answered. Promise.all() resolves with the last one.
CompareResolves ==
  \E i \in 1..Len(revisions) :
    /\ compareResps[i] = "pending"
    /\ compareResps' = [compareResps EXCEPT ![i] = "resolved"]
    /\ IF search.status = "awaiting" /\ \A j \in 1..Len(revisions) : compareResps'[j] = "resolved"
       THEN ThankAfterSearch(ScoredOutcome(revisions))
       ELSE UNCHANGED <<search, addingEdit, thankButton, thankStep, notification>>
    /\ UNCHANGED <<revisions, thanks, apiPosts>>
    /\ UNCHANGED <<locateVars, modifyVars, bootVars, pageVars>>

\* A compare request fails: handleApiReject() rejects, and so does
\* Promise.all() at once; the other requests stay in flight.
CompareRejects ==
  \E i \in 1..Len(revisions), type \in ApiRejectTypes :
    /\ compareResps[i] = "pending"
    /\ compareResps' = [compareResps EXCEPT ![i] = "rejected"]
    /\ IF search.status = "awaiting"
       THEN /\ search' = Thrown(type)
            /\ ThankFail(Thrown(type))
       ELSE UNCHANGED <<search, thankButton, thankStep, notification>>
    /\ UNCHANGED <<revisions, addingEdit, thanks, apiPosts>>
    /\ UNCHANGED <<locateVars, modifyVars, bootVars, pageVars>>

\* OO.ui.confirm() is accepted: the 'thank' request is posted.
ConfirmThank ==
  /\ thankStep = "confirming"
  /\ thankStep' = "posting"
  /\ apiPosts' = apiPosts \cup {search.revision}
  /\ notification' = Null
  /\ UNCHANGED <<revisions, compareResps, addingEdit, search, thankButton, thanks>>
  /\ UNCHANGED <<locateVars, modifyVars, bootVars, pageVars>>

\* OO.ui.confirm() is declined.
DeclineThank ==
  /\ thankStep = "confirming"
  /\ thankStep' = "idle"
  /\ thankButton' = "idle"
  /\ notification' = Null
  /\ UNCHANGED <<revisions, compareResps, addingEdit, search, thanks, apiPosts>>
  /\ UNCHANGED <<locateVars, modifyVars, bootVars, pageVars>>

\* The 'thank' request succeeds.
ThankPosted ==
  /\ thankStep = "posting"
  /\ notification' = [type |-> "info", text |-> "thank-success"]
  /\ thankButton' = "thanked"
  /\ thanks' = thanks \cup {search.revision}
  /\ thankStep' = "idle"
  /\ UNCHANGED <<revisions, compareResps, addingEdit, search, apiPosts>>
  /\ UNCHANGED <<locateVars, modifyVars, bootVars, pageVars>>

\* The 'thank' request fails.
ThankPostFails ==
  /\ thankStep = "posting"
  /\ \E type \in ApiRejectTypes : ThankFail(Thrown(type))
  /\ UNCHANGED <<revisions, compareResps, addingEdit, search, thanks, apiPosts>>
  /\ UNCHANGED <<locateVars, modifyVars, bootVars, pageVars>>

NextThank ==
  \/ Thank
  \/ RevisionsArrive
  \/ RevisionsFail
  \/ CompareResolves
  \/ CompareRejects
  \/ ConfirmThank
  \/ DeclineThank
  \/ ThankPosted
  \/ ThankPostFails

SpecThank == InitThank /\ [][NextThank]_vars

-----------------------------------------------------------------------------
(* BootProcess#execute with the page parse: findTargets, processComments and *)
(* processSections. An element of the page is a heading or a signature,      *)
(* known by its position in the document, together with what                 *)
(* Parser#createComment / Parser#createSection does for it: "ok", or it      *)
(* throws a "CdError" or another "Error".                                    *)

MaxTargets == 3

TargetTypes == {"heading", "signature"}

Creations == {"ok", "CdError", "Error"}

\* The headings and signatures of the root element, in document order.
RootElements ==
  UNION {[1..n -> [type : TargetTypes, creation : Creations]] : n \in 0..MaxTargets}

\* Parser#findHeadings, Parser#findSignatures: the elements of a type, each
\* with its position.
FoundTargets(root, type) ==
  LET positioned == [i \in 1..Len(root) |-> root[i] @@ [position |-> i]]
  IN SelectSeq(positioned, LAMBDA t : t.type = type)

\* Array.prototype.sort with the comparator of findTargets.
RECURSIVE SortByPosition(_)
SortByPosition(ts) ==
  IF ts = <<>>
  THEN <<>>
  ELSE LET first == CHOOSE i \in 1..Len(ts) :
                      \A j \in 1..Len(ts) : ts[i].position <= ts[j].position
       IN <<ts[first]>>
            \o SortByPosition(SubSeq(ts, 1, first - 1) \o SubSeq(ts, first + 1, Len(ts)))

\* .filter((target) => target.type === type)
TargetsOfType(ts, type) == SelectSeq(ts, LAMBDA t : t.type = type)

\* The forEach of processComments / processSections stopping at the first
\* error.
RegisteredUntilError(ts, type) ==
  LET ofType == TargetsOfType(ts, type)
      ok(n) == \A i \in 1..n : ofType[i].creation = "ok"
      count == CHOOSE n \in 0..Len(ofType) :
                 ok(n) /\ (n < Len(ofType) => ~ok(n + 1))
  IN [i \in 1..count |-> ofType[i].position]

\* The forEach of processComments / processSections: what is added to the
\* registry (the targets' positions), every throw being caught.
Registered(ts, type) ==
  LET created == SelectSeq(TargetsOfType(ts, type), LAMBDA t : t.creation = "ok")
  IN [i \in 1..Len(created) |-> created[i].position]

\* if (!(e instanceof CdError)) console.error(e)
LoggedErrors(ts, type) ==
  LET failed == SelectSeq(TargetsOfType(ts, type), LAMBDA t : t.creation = "Error")
  IN [i \in 1..Len(failed) |-> [target |-> failed[i].position]]

\* The error of a call that follows the loop (position 0: no target).
LaterError == [target |-> 0]

InitBoot ==
  /\ InitLocateVars
  /\ target = Null
  /\ IdleModifyVars
  /\ IdleThankVars
  /\ IdlePageVars
  /\ pageFlags \in [exists : BOOLEAN, definitelyTalkPage : BOOLEAN]
  /\ rootElement \in {root \in RootElements : ~pageFlags.exists => root = <<>>}
  /\ targets = <<>>
  /\ comments = <<>>
  /\ sections = <<>>
  /\ consoleErrors = <<>>
  /\ hooksFired = <<>>
  /\ bootStep = "idle"
  /\ firstRun = TRUE
  /\ talkPage = TRUE
  /\ loadingOverlay = TRUE
  /\ eventListeners = 0

\* The page as a reload finds it: as it was, with one element more or
\* without its last element.
ReloadedRoots(root) ==
  {root}
    \cup (IF Len(root) < MaxTargets
          THEN {Append(root, e) : e \in [type : TargetTypes, creation : Creations]}
          ELSE {})
    \cup (IF Len(root) > 0 THEN {SubSeq(root, 1, Len(root) - 1)} ELSE {})

\* execute(isReload) up to the end of setup(): the first run, or a reload of
\* a page whose run is over; the registries start empty.
Execute ==
  /\ \E isReload \in BOOLEAN :
       /\ bootStep = IF isReload THEN "done" ELSE "idle"
       /\ firstRun' = ~isReload
       /\ rootElement' \in IF isReload THEN ReloadedRoots(rootElement) ELSE {rootElement}
  /\ targets' = <<>>
  /\ comments' = <<>>
  /\ sections' = <<>>
  /\ consoleErrors' = <<>>
  /\ hooksFired' = <<>>
  /\ loadingOverlay' = TRUE
  /\ bootStep' = "setup"
  /\ UNCHANGED <<pageFlags, talkPage, eventListeners>>
  /\ UNCHANGED <<locateVars, modifyVars, thankVars, pageVars>>

\* this.firstRun && !controller.isDefinitelyTalkPage() && !CommentStatic.getCount(),
\* on any run.
ShouldRetractOnAnyRun(first, definitelyTalkPage, count) ==
  ~definitelyTalkPage /\ count = 0

\* this.firstRun && !controller.isDefinitelyTalkPage() && !CommentStatic.getCount()
ShouldRetract(first, definitelyTalkPage, count) ==
  first /\ ~definitelyTalkPage /\ count = 0

\* The hooks at the end of execute, pageReadyFirstTime on every run.
ReadyHooksOnEveryRun(first) == <<"pageReady", "pageReadyFirstTime">>

\* The hooks at the end of execute.
ReadyHooks(first) ==
  <<"pageReady">> \o (IF first THEN <<"pageReadyFirstTime">> ELSE <<>>)

\* Where execute is after the block of findTargets and processComments,
\* which a page that does not exist skips.
AfterParse == bootStep = "comments" \/ (bootStep = "setup" /\ ~pageFlags.exists)

FindTargets ==
  /\ bootStep = "setup"
  /\ pageFlags.exists
  /\ targets' =
       SortByPosition(FoundTargets(rootElement, "heading")
                        \o FoundTargets(rootElement, "signature"))
  /\ hooksFired' = Append(hooksFired, "beforeParse")
  /\ bootStep' = "targets"
  /\ UNCHANGED <<rootElement, comments, sections, consoleErrors>>
  /\ UNCHANGED <<firstRun, pageFlags, talkPage, loadingOverlay, eventListeners>>
  /\ UNCHANGED <<locateVars, modifyVars, thankVars, pageVars>>

\* processComments(): the calls after the loop (reformatTimestamps,
\* findAndUpdateTableComments, adjustDom) throw or not; the outer catch logs.
ProcessComments ==
  /\ bootStep = "targets"
  /\ comments' = Registered(targets, "signature")
  /\ \E laterCallThrows \in BOOLEAN :
       consoleErrors' =
         consoleErrors \o LoggedErrors(targets, "signature")
           \o (IF laterCallThrows THEN <<LaterError>> ELSE <<>>)
  /\ hooksFired' = Append(hooksFired, "commentsReady")
  /\ bootStep' = "comments"
  /\ UNCHANGED <<rootElement, targets, sections>>
  /\ UNCHANGED <<firstRun, pageFlags, talkPage, loadingOverlay, eventListeners>>
  /\ UNCHANGED <<locateVars, modifyVars, thankVars, pageVars>>

\* The page turned out not to be a talk page: retractTalkPageness() and
\* return.
RetractTalkPageness ==
  /\ AfterParse
  /\ ShouldRetract(firstRun, pageFlags.definitelyTalkPage, Len(comments))
  /\ talkPage' = FALSE
  /\ loadingOverlay' = FALSE
  /\ bootStep' = "retracted"
  /\ UNCHANGED <<rootElement, targets, comments, sections, consoleErrors, hooksFired>>
  /\ UNCHANGED <<firstRun, pageFlags, eventListeners>>
  /\ UNCHANGED <<locateVars, modifyVars, thankVars, pageVars>>

\* processSections(): nothing catches a throw of the calls after the loop.
ProcessSections ==
  /\ bootStep = "comments"
  /\ ~ShouldRetract(firstRun, pageFlags.definitelyTalkPage, Len(comments))
  /\ sections' = Registered(targets, "heading")
  /\ consoleErrors' = consoleErrors \o LoggedErrors(targets, "heading")
  /\ \E laterCallThrows \in BOOLEAN :
       IF laterCallThrows
       THEN bootStep' = "thrown" /\ UNCHANGED hooksFired
       ELSE bootStep' = "sections" /\ hooksFired' = Append(hooksFired, "sectionsReady")
  /\ UNCHANGED <<rootElement, targets, comments>>
  /\ UNCHANGED <<firstRun, pageFlags, talkPage, loadingOverlay, eventListeners>>
  /\ UNCHANGED <<locateVars, modifyVars, thankVars, pageVars>>

\* The rest of execute: the event listeners on the first run of a page that
\* exists, the hook for the author wrappers when comments are reformatted,
\* pageReady, pageReadyFirstTime, hideLoadingOverlay().
CompleteExecute ==
  /\ \/ bootStep = "sections"
     \/ /\ bootStep = "setup" /\ ~pageFlags.exists
        /\ ~ShouldRetract(firstRun, pageFlags.definitelyTalkPage, Len(comments))
  /\ eventListeners' =
       IF pageFlags.exists /\ firstRun THEN eventListeners + 1 ELSE eventListeners
  /\ \E reformatComments \in BOOLEAN :
       hooksFired' =
         hooksFired
           \o (IF pageFlags.exists /\ reformatComments /\ Len(comments) > 0
               THEN <<"authorWrappers">> ELSE <<>>)
           \o ReadyHooks(firstRun)
  /\ loadingOverlay' = FALSE
  /\ bootStep' = "done"
  /\ UNCHANGED <<rootElement, targets, comments, sections, consoleErrors>>
  /\ UNCHANGED <<firstRun, pageFlags, talkPage>>
  /\ UNCHANGED <<locateVars, modifyVars, thankVars, pageVars>>

NextBoot ==
  \/ Execute
  \/ CompleteExecute
  \/ FindTargets
  \/ ProcessComments
  \/ RetractTalkPageness
  \/ ProcessSections

SpecBoot == InitBoot /\ [][NextBoot]_vars

-----------------------------------------------------------------------------
(* SpecApp: app() of src/js/app.js, the script's entry point, with the       *)
(* loading of the configuration and of the localization strings.            *)

\* Most invocations of app() on one page (the script loaded several times).
MaxAppCalls == 3

\* What an invocation finds: whether the page is one the script runs on,
\* whether cd.config is already there, whether the wiki has a configuration
\* URL and whether that is an enabled gadget, whether language fallbacks are
\* employed, whether cd.i18n is there, whether the configuration has set
\* cd.getStringsPromise, and whether getStrings has any language to request.
AppEnvironments ==
  [suitable : BOOLEAN, hasConfig : BOOLEAN, configUrl : BOOLEAN, gadget : BOOLEAN,
   fallbacks : BOOLEAN, i18n : BOOLEAN, given : BOOLEAN, requests : BOOLEAN]

NoPromise == [kind |-> "none", state |-> "none", failed |-> FALSE]

\* getConfig(): resolved at once without a configuration URL, otherwise
\* waiting for the gadget module or for the script.
GetConfig(env) ==
  IF ~env.configUrl THEN [kind |-> "nourl", state |-> "resolved", failed |-> FALSE]
  ELSE IF env.gadget THEN [kind |-> "gadget", state |-> "pending", failed |-> FALSE]
  ELSE [kind |-> "script", state |-> "pending", failed |-> FALSE]

\* getStrings(): Promise.all over the requests, with its rejection caught.
GetStrings(env) ==
  [kind |-> "getStrings", state |-> IF env.requests THEN "pending" ELSE "resolved",
   failed |-> FALSE]

\* The getStringsPromise of app().
GetStringsPromise(env) ==
  IF env.fallbacks THEN GetStrings(env)
  ELSE IF env.i18n THEN NoPromise
  ELSE IF env.given THEN [kind |-> "given", state |-> "pending", failed |-> FALSE]
  ELSE GetStrings(env)

\* app() without the test of cd.isRunning.
AppOutcomeWhileRunning(running, env) ==
  IF ~env.suitable
  THEN [step |-> "unsuitable", config |-> NoPromise, strings |-> NoPromise]
  ELSE [step |-> "awaiting",
        config |-> IF env.hasConfig THEN NoPromise ELSE GetConfig(env),
        strings |-> GetStringsPromise(env)]

\* app() up to its await: where the invocation is and the promises it waits
\* for.
AppOutcome(running, env) ==
  IF running
  THEN [step |-> "returned", config |-> NoPromise, strings |-> NoPromise]
  ELSE IF ~env.suitable
  THEN [step |-> "unsuitable", config |-> NoPromise, strings |-> NoPromise]
  ELSE [step |-> "awaiting",
        config |-> IF env.hasConfig THEN NoPromise ELSE GetConfig(env),
        strings |-> GetStringsPromise(env)]

InitApp ==
  /\ IdleAppVars
  /\ InitLocateVars
  /\ target = Null
  /\ IdleModifyVars
  /\ IdleThankVars
  /\ IdleBootVars
  /\ IdleTocVars
  /\ IdleLayerVars

\* app() is invoked.
App ==
  /\ Len(appRuns) < MaxAppCalls
  /\ \E env \in AppEnvironments :
       LET run == AppOutcome(isRunning, env)
       IN /\ appRuns' = Append(appRuns, run)
          /\ launched' = IF run.step = "awaiting" THEN launched + 1 ELSE launched
  /\ isRunning' = TRUE
  /\ UNCHANGED goScheduled
  /\ UNCHANGED <<locateVars, modifyVars, thankVars, bootVars, tocVars, layerVars>>

Awaiting(i) == i \in 1..Len(appRuns) /\ appRuns[i].step = "awaiting"

\* The configuration script or gadget module is loaded and executed.
ConfigLoads ==
  /\ \E i \in 1..Len(appRuns) :
       /\ Awaiting(i) /\ appRuns[i].config.state = "pending"
       /\ ~appRuns[i].config.failed
       /\ appRuns' = [appRuns EXCEPT ![i].config.state = "resolved"]
  /\ UNCHANGED <<isRunning, launched, goScheduled>>
  /\ UNCHANGED <<locateVars, modifyVars, thankVars, bootVars, tocVars, layerVars>>

\* Loading the configuration fails: getScript's rejection rejects the
\* promise of getConfig; a gadget module that fails to load leaves it
\* pending, mw.loader.using() being given no rejection handler.
ConfigFails ==
  /\ \E i \in 1..Len(appRuns) :
       /\ Awaiting(i) /\ appRuns[i].config.state = "pending"
       /\ ~appRuns[i].config.failed
       /\ appRuns' = [appRuns EXCEPT
            ![i].config.state = IF appRuns[i].config.kind = "script" THEN "rejected" ELSE "pending",
            ![i].config.failed = TRUE]
  /\ UNCHANGED <<isRunning, launched, goScheduled>>
  /\ UNCHANGED <<locateVars, modifyVars, thankVars, bootVars, tocVars, layerVars>>

\* The localization strings are loaded.
StringsLoad ==
  /\ \E i \in 1..Len(appRuns) :
       /\ Awaiting(i) /\ appRuns[i].strings.state = "pending"
       /\ appRuns' = [appRuns EXCEPT ![i].strings.state = "resolved"]
  /\ UNCHANGED <<isRunning, launched, goScheduled>>
  /\ UNCHANGED <<locateVars, modifyVars, thankVars, bootVars, tocVars, layerVars>>

\* Loading the localization strings fails: getStrings() catches the
\* rejection; a cd.getStringsPromise set by the configuration is awaited as
\* it is, so it rejects unless the configuration has handled the failure.
StringsFail ==
  /\ \E i \in 1..Len(appRuns), handled \in BOOLEAN :
       /\ Awaiting(i) /\ appRuns[i].strings.state = "pending"
       /\ appRuns' = [appRuns EXCEPT
            ![i].strings.state =
              IF appRuns[i].strings.kind = "getStrings" \/ handled
              THEN "resolved" ELSE "rejected",
            ![i].strings.failed = TRUE]
  /\ UNCHANGED <<isRunning, launched, goScheduled>>
  /\ UNCHANGED <<locateVars, modifyVars, thankVars, bootVars, tocVars, layerVars>>

Settled(promise) == promise.state \in {"none", "resolved"}

\* app() after its await: Promise.all has rejected (console.error and
\* return) or has resolved ($(go)).
AppResumes ==
  /\ \E i \in 1..Len(appRuns) :
       /\ Awaiting(i)
       /\ IF appRuns[i].config.state = "rejected" \/ appRuns[i].strings.state = "rejected"
          THEN /\ appRuns' = [appRuns EXCEPT ![i].step = "failed"]
               /\ UNCHANGED goScheduled
          ELSE /\ Settled(appRuns[i].config) /\ Settled(appRuns[i].strings)
               /\ appRuns' = [appRuns EXCEPT ![i].step = "scheduled"]
               /\ goScheduled' = goScheduled + 1
  /\ UNCHANGED <<isRunning, launched>>
  /\ UNCHANGED <<locateVars, modifyVars, thankVars, bootVars, tocVars, layerVars>>

NextApp ==
  \/ App
  \/ ConfigLoads
  \/ ConfigFails
  \/ StringsLoad
  \/ StringsFail
  \/ AppResumes

SpecApp == InitApp /\ [][NextApp]_vars

-----------------------------------------------------------------------------
(* SpecToc: toc.addNewSections, which puts the sections of a new revision of *)
(* the page into the table of contents.                                      *)

\* Longest list of sections of the new revision.
MaxSections == 4

\* The heading levels (the number of "=" signs) of the sections.
SectionLevels == {2, 3, 4}

\* A section skeleton as the worker sends it: `rendered` says whether
\* Section.search() finds it on the page with an item in the TOC. parent is
\* an index into the array (0: undefined), tocLevel 0 is undefined.
SectionSkeletons ==
  [level : SectionLevels, rendered : BOOLEAN, parent : {0}, tocLevel : {0}]

\* The nearest preceding section of a lower or the same level.
ParentOfLowerOrEqual(secs, i) ==
  LET P == {j \in 1..(i - 1) : secs[j].level <= secs[i].level}
  IN IF P = {} THEN 0 ELSE CHOOSE j \in P : \A k \in P : k <= j

\* sections.slice(0, i).reverse().find((other) => other.level < section.level)
ParentOf(secs, i) ==
  LET P == {j \in 1..(i - 1) : secs[j].level < secs[i].level}
  IN IF P = {} THEN 0 ELSE CHOOSE j \in P : \A k \in P : k <= j

\* The first forEach: every section gets its parent.
WithParents(secs) ==
  [i \in 1..Len(secs) |-> [secs[i] EXCEPT !.parent = ParentOf(secs, i)]]

\* The second forEach, from section i on: tocLevel from the parent's, which
\* the loop has set before when the parent precedes the section.
RECURSIVE WithTocLevels(_, _)
WithTocLevels(secs, i) ==
  IF i > Len(secs) THEN secs
  ELSE WithTocLevels(
         [secs EXCEPT ![i].tocLevel =
            IF secs[i].parent # 0 THEN secs[secs[i].parent].tocLevel + 1 ELSE 1],
         i + 1)

\* currentTree[level - 1] = item; currentTree.splice(level). An index the
\* array did not reach is left empty (0).
PutInTree(tree, level, item) ==
  [k \in 1..level |->
     IF k = level THEN item ELSE IF k <= Len(tree) THEN tree[k] ELSE 0]

\* The third forEach, from section i on: an item is added for every section
\* that is not rendered, after the current item of its level, else under the
\* last item of the tree, else on top; items are named by their section.
RECURSIVE AddedItems(_, _, _, _)
AddedItems(secs, i, currentTree, items) ==
  IF i > Len(secs) THEN items
  ELSE
    LET level == secs[i].tocLevel
        currentLevelMatch == IF level <= Len(currentTree) THEN currentTree[level] ELSE 0
        upperLevelMatch ==
          IF currentLevelMatch = 0 /\ currentTree # <<>>
          THEN currentTree[Len(currentTree)] ELSE 0
        item == [section |-> i, level |-> level,
                 place |-> IF currentLevelMatch # 0 THEN "after"
                           ELSE IF upperLevelMatch # 0 THEN "under" ELSE "top",
                 of |-> IF currentLevelMatch # 0 THEN currentLevelMatch ELSE upperLevelMatch]
    IN AddedItems(secs, i + 1, PutInTree(currentTree, level, i),
                  IF secs[i].rendered THEN items ELSE Append(items, item))

InitToc ==
  /\ tocSettings \in [modifyToc : BOOLEAN, hasToc : BOOLEAN]
  /\ tocSections \in UNION {[1..n -> SectionSkeletons] : n \in 0..MaxSections}
  /\ tocItems = <<>>
  /\ tocCall = "none"
  /\ InitLocateVars
  /\ target = Null
  /\ IdleModifyVars
  /\ IdleThankVars
  /\ IdleBootVars
  /\ IdleAppVars
  /\ IdleLayerVars

\* toc.addNewSections(sections)
AddNewSections ==
  /\ tocCall = "none"
  /\ IF ~tocSettings.modifyToc \/ ~tocSettings.hasToc
     THEN /\ tocCall' = "returned"
          /\ UNCHANGED <<tocSections, tocItems>>
     ELSE LET secs == WithTocLevels(WithParents(tocSections), 1)
          IN /\ tocSections' = secs
             /\ tocItems' = AddedItems(secs, 1, <<>>, <<>>)
             /\ tocCall' = "done"
  /\ UNCHANGED tocSettings
  /\ UNCHANGED <<locateVars, modifyVars, thankVars, bootVars, appVars, layerVars>>

NextToc == AddNewSections

SpecToc == InitToc /\ [][NextToc]_vars

-----------------------------------------------------------------------------
(* SpecLayers: the layers (underlay and overlay) of one comment, its hover   *)
(* highlight and its flashes (Comment#configureLayers, #removeLayers,        *)
(* #highlightHovered, #unhighlightHovered, #flash, #animateBack, #edit).     *)

\* The types of flash and whether the callback handed to flash() is the one
\* of flashTarget ("target": it resets isTarget) or missing ("none").
FlashTypes == {"target", "changed"}
BoundAnimateBack(type, callback) == [type |-> type, callback |-> callback]

\* The fields of the comment as one record.
ThisComment ==
  [underlay |-> underlay, animatedBackground |-> animatedBackground,
   isHovered |-> isHovered, isTarget |-> isTarget, editForm |-> editForm,
   classes |-> classes, animateBackBound |-> animateBackBound,
   unhighlightTimeout |-> unhighlightTimeout, animation |-> animation,
   orphanAnimations |-> orphanAnimations, isMoved |-> isMoved]

\* The callback of a flash is called.
Callback(c, callback) ==
  IF callback = "target" THEN [c EXCEPT !.isTarget = FALSE] ELSE c

\* configureLayers(): null with an edit form or when the comment is not
\* visible; isMoved with layers; otherwise the layers are created.
ConfigureLayersOn(c, visible, moved) ==
  IF c.editForm \/ ~visible THEN [c EXCEPT !.isMoved = "null"]
  ELSE IF c.underlay THEN [c EXCEPT !.isMoved = IF moved THEN "true" ELSE "false"]
  ELSE [c EXCEPT !.underlay = TRUE, !.classes = {}, !.isMoved = "false"]

\* The complete function of the animation on $animatedBackground: on its
\* last element it calls the callback.
CompleteAnimation(c) ==
  [Callback(c, c.animation.callback) EXCEPT !.animation = Null]

\* $animatedBackground?.stop(false, true): a running animation jumps to its
\* end and its complete function is called.
StopAndComplete(c) ==
  IF c.animation # Null THEN CompleteAnimation(c) ELSE c

\* removeLayers() leaving isHovered as it is.
RemoveLayersKeepingHovered(c) ==
  IF ~c.underlay THEN c
  ELSE [c EXCEPT !.animation = Null,
                 !.underlay = FALSE,
                 !.animatedBackground = IF @ = "current" THEN "removed" ELSE @,
                 !.classes = {}]

\* removeLayers(): the animations are stopped where they are (stop() without
\* jumpToEnd calls no complete function), the layers are gone.
RemoveLayersOn(c) ==
  IF ~c.underlay THEN c
  ELSE [c EXCEPT !.animation = Null,
                 !.underlay = FALSE,
                 !.animatedBackground = IF @ = "current" THEN "removed" ELSE @,
                 !.classes = {},
                 !.isHovered = FALSE]

\* animateBack(type, callback): without layers the callback is called at
\* once, otherwise the class is reset and the animation back starts on
\* $animatedBackground.
AnimateBackOn(c, bound) ==
  LET c1 == [c EXCEPT !.animateBackBound = Null]
  IN IF ~c1.underlay THEN Callback(c1, bound.callback)
     ELSE [c1 EXCEPT !.classes = @ \ {bound.type},
                     !.animation = [callback |-> bound.callback]]

\* flash(type, delay, callback)
FlashOn(c, type, callback, visible, moved) ==
  LET c1 == ConfigureLayersOn(c, visible, moved)
      c2 == IF c1.animateBackBound # Null
            THEN AnimateBackOn([c1 EXCEPT !.unhighlightTimeout = Null], c1.animateBackBound)
            ELSE c1
      c3 == IF c2.animatedBackground = "removed" /\ c2.animation # Null
            THEN [c2 EXCEPT !.animatedBackground = "current",
                            !.orphanAnimations = @ \cup {c2.animation},
                            !.animation = Null]
            ELSE [c2 EXCEPT !.animatedBackground = "current"]
      c4 == StopAndComplete(c3)
  IN IF ~c1.underlay THEN Callback(c1, callback)
     ELSE [c4 EXCEPT !.classes = @ \cup {type},
                     !.animateBackBound = BoundAnimateBack(type, callback),
                     !.unhighlightTimeout = BoundAnimateBack(type, callback)]

\* highlightHovered(e); `blocked` is isPageOverlayOn() ||
\* cd.settings.reformatComments.
HighlightHoveredOn(c, blocked, visible, moved) ==
  IF c.isHovered \/ blocked THEN c
  ELSE LET c1 == ConfigureLayersOn(StopAndComplete(c), visible, moved)
       IN IF c1.isMoved = "true" \/ ~c1.underlay THEN c1
          ELSE [c1 EXCEPT !.classes = @ \cup {"hovered"}, !.isHovered = TRUE]

\* unhighlightHovered()
UnhighlightHoveredOn(c, reformatComments) ==
  IF ~c.isHovered \/ reformatComments THEN c
  ELSE [StopAndComplete(c) EXCEPT !.classes = @ \ {"hovered"}, !.isHovered = FALSE]

\* The fields of the comment become those of the record.
Becomes(c) ==
  /\ underlay' = c.underlay
  /\ animatedBackground' = c.animatedBackground
  /\ isHovered' = c.isHovered
  /\ isTarget' = c.isTarget
  /\ editForm' = c.editForm
  /\ classes' = c.classes
  /\ animateBackBound' = c.animateBackBound
  /\ unhighlightTimeout' = c.unhighlightTimeout
  /\ animation' = c.animation
  /\ orphanAnimations' = c.orphanAnimations
  /\ isMoved' = c.isMoved

InitLayers ==
  /\ IdleLayerVars
  /\ InitLocateVars
  /\ target = Null
  /\ IdleModifyVars
  /\ IdleThankVars
  /\ IdleBootVars
  /\ IdleAppVars
  /\ IdleTocVars

\* configureLayers()
ConfigureLayers ==
  /\ \E visible, moved \in BOOLEAN :
       Becomes(ConfigureLayersOn(ThisComment, visible, moved))
  /\ UNCHANGED <<locateVars, modifyVars, thankVars, bootVars, appVars, tocVars>>

\* removeLayers()
RemoveLayers ==
  /\ Becomes(RemoveLayersOn(ThisComment))
  /\ UNCHANGED <<locateVars, modifyVars, thankVars, bootVars, appVars, tocVars>>

\* highlightHovered(e)
HighlightHovered ==
  /\ \E blocked, visible, moved \in BOOLEAN :
       Becomes(HighlightHoveredOn(ThisComment, blocked, visible, moved))
  /\ UNCHANGED <<locateVars, modifyVars, thankVars, bootVars, appVars, tocVars>>

\* unhighlightHovered()
UnhighlightHovered ==
  /\ \E reformatComments \in BOOLEAN :
       Becomes(UnhighlightHoveredOn(ThisComment, reformatComments))
  /\ UNCHANGED <<locateVars, modifyVars, thankVars, bootVars, appVars, tocVars>>

\* edit(): the layers are removed and the edit form is created.
EditComment ==
  /\ Becomes([RemoveLayersOn(ThisComment) EXCEPT !.editForm = TRUE])
  /\ UNCHANGED <<locateVars, modifyVars, thankVars, bootVars, appVars, tocVars>>

\* flashTarget()
FlashTarget ==
  /\ \E visible, moved \in BOOLEAN :
       Becomes(FlashOn([ThisComment EXCEPT !.isTarget = TRUE], "target", "target",
                       visible, moved))
  /\ UNCHANGED <<locateVars, modifyVars, thankVars, bootVars, appVars, tocVars>>

\* flashChanged(): flash('changed', 1000) without a callback.
FlashChanged ==
  /\ \E visible, moved \in BOOLEAN :
       Becomes(FlashOn(ThisComment, "changed", "none", visible, moved))
  /\ UNCHANGED <<locateVars, modifyVars, thankVars, bootVars, appVars, tocVars>>

\* The delay of the flash elapses: the timer calls the bound animateBack.
TimerFires ==
  /\ unhighlightTimeout # Null
  /\ Becomes(AnimateBackOn([ThisComment EXCEPT !.unhighlightTimeout = Null],
                           unhighlightTimeout))
  /\ UNCHANGED <<locateVars, modifyVars, thankVars, bootVars, appVars, tocVars>>

\* The animation back runs to its end.
AnimationCompletes ==
  /\ animation # Null
  /\ Becomes(CompleteAnimation(ThisComment))
  /\ UNCHANGED <<locateVars, modifyVars, thankVars, bootVars, appVars, tocVars>>

\* An animation on elements that $animatedBackground no longer holds runs to
\* its end: its complete function returns before the callback.
OrphanAnimationCompletes ==
  /\ \E a \in orphanAnimations :
       Becomes([ThisComment EXCEPT !.orphanAnimations = @ \ {a}])
  /\ UNCHANGED <<locateVars, modifyVars, thankVars, bootVars, appVars, tocVars>>

NextLayers ==
  \/ ConfigureLayers
  \/ RemoveLayers
  \/ HighlightHovered
  \/ UnhighlightHovered
  \/ EditComment
  \/ FlashTarget
  \/ FlashChanged
  \/ TimerFires
  \/ AnimationCompletes
  \/ OrphanAnimationCompletes

SpecLayers == InitLayers /\ [][NextLayers]_vars

\* Timers and animations that are not stopped run to completion.
SpecLayersFair ==
  /\ SpecLayers
  /\ WF_vars(TimerFires)
  /\ WF_vars(AnimationCompletes)
  /\ WF_vars(OrphanAnimationCompletes)

-----------------------------------------------------------------------------
(* Properties of the locator *)

Called == lastCall.status # "none"
Located == lastCall.status = "ok"
Failed == lastCall.status = "error"

\* The set of scored candidates of the current page.
Candidates == {ScoredMatches(signatures, target)[j] :
                 j \in 1..Len(ScoredMatches(signatures, target))}

\* The only signature of the page that matches the target's author and
\* timestamp, when there is exactly one.
HasOnlyCandidate == Cardinality(SignatureMatches(signatures, target)) = 1
OnlyCandidate == CHOOSE i \in SignatureMatches(signatures, target) : TRUE

\* The score terms of the only candidate apart from the "only candidate"
\* bonus, in units of 0.0001.
OnlyCandidateOtherTerms ==
  LET sig == signatures[OnlyCandidate]
  IN sig.wordOverlap * 1000
       + HasHeadlineMatched(sig, target) * 10000
       + Num(PreviousCommentsData(signatures, target, OnlyCandidate).matched) * 5000
       + Num(target.id = OnlyCandidate - 1)

\* C1 (as stated): with exactly one signature matching the target's author
\* and timestamp, locateInCode returns that occurrence whatever the word
\* overlap and the other score components are.
C1_OnlyCandidateAlwaysLocated ==
  (Called /\ HasOnlyCandidate) =>
    (Located /\ lastCall.match.id = OnlyCandidate - 1)

\* C1 (amended): with exactly one matching signature, locateInCode returns
\* that occurrence exactly when the score terms other than the bonus of 2
\* (word overlap + headline term + 0.5 previous comments + 0.0001 id) exceed
\* 0.5, and fails otherwise.
C1_OnlyCandidateLocatedIffOtherTermsSuffice ==
  (Called /\ HasOnlyCandidate) =>
    /\ (Located /\ lastCall.match.id = OnlyCandidate - 1)
         <=> OnlyCandidateOtherTerms > 5000
    /\ Failed <=> OnlyCandidateOtherTerms <= 5000

\* The only candidate is located although its text does not overlap at all.
C1_Witness ==
  /\ Called /\ HasOnlyCandidate /\ Located
  /\ lastCall.match.id = OnlyCandidate - 1
  /\ signatures[OnlyCandidate].wordOverlap = 0
  /\ Len(signatures) > 1

\* Two candidates whose score terms agree except for the id term.
DifferOnlyInId(a, b) ==
  /\ a.wordOverlap = b.wordOverlap
  /\ a.hasHeadlineMatched = b.hasHeadlineMatched
  /\ a.hasPreviousCommentsDataMatched = b.hasPreviousCommentsDataMatched
  /\ a.score - Num(a.hasIdMatched) = b.score - Num(b.hasIdMatched)
  /\ a.hasIdMatched /\ ~b.hasIdMatched

\* C2: locateInCode never selects a candidate scoring 2.5 or less; the one it
\* returns has the greatest score of all candidates above 2.5; of two
\* candidates that differ only in the id term, the one whose id is the
\* target's is chosen.
C2_BestAboveThreshold ==
  Located =>
    /\ lastCall.match \in Candidates
    /\ lastCall.match.score > 25000
    /\ \A m \in Candidates : m.score <= lastCall.match.score
    /\ \A a, b \in Candidates : DifferOnlyInId(a, b) => lastCall.match # b

\* The id term decides between two otherwise equal candidates, the second of
\* which has the target's id.
C2_Witness ==
  /\ Located
  /\ \E a, b \in Candidates :
       DifferOnlyInId(a, b) /\ lastCall.match = a /\ b.id < a.id /\ b.score > 25000

\* C3: when no candidate scores above 2.5 (in particular when no signature
\* matches the target's author and timestamp), locateInCode throws the
\* CdError {type: 'parse', code: 'locateComment'} and yields no location.
C3_NoSurvivorFails ==
  (Called /\ \A m \in Candidates : m.score <= 25000) =>
    /\ Failed
    /\ lastCall.type = "parse"
    /\ lastCall.code = "locateComment"
    /\ ~lastCall.pageCodeGiven => inCode = Null

\* The call fails although a signature matches the author and timestamp.
C3_Witness ==
  /\ Failed
  /\ Candidates # {}
  /\ \E m \in Candidates : m.score = 25000

AuthorAndTimestampMatch(sig) ==
  /\ sig.author \in {target.author, "<undated>"}
  /\ Len(sig.timestamp) <= Len(target.timestamp)
  /\ \A k \in 1..Len(sig.timestamp) : sig.timestamp[k] = target.timestamp[k]

\* C4: every candidate searchInCode scores is a signature of the target's
\* author or of '<undated>' whose timestamp is the target's or a prefix of
\* it; no other signature is returned as the location.
C4_OnlyMatchingSignatures ==
  /\ \A m \in Candidates : AuthorAndTimestampMatch(signatures[m.id + 1])
  /\ Located => AuthorAndTimestampMatch(signatures[lastCall.match.id + 1])
  /\ (inCode # Null /\ lastCall.status # "none") =>
       AuthorAndTimestampMatch(signatures[inCode.id + 1])

\* An '<undated>' signature or one with a prefix of the timestamp is located
\* on a page that also holds another author's signature of that timestamp.
C4_Witness ==
  /\ Located
  /\ \E i \in 1..Len(signatures) :
       signatures[i].author = "B" /\ signatures[i].timestamp = target.timestamp
  /\ LET sig == signatures[lastCall.match.id + 1]
     IN sig.author = "<undated>" /\ sig.timestamp = <<1>>

\* The term of a candidate's score that the doubled disjunction gives.
BonusTerm(m) ==
  BonusFactor(Cardinality(SignatureMatches(signatures, target)), m.wordOverlap, target.id,
              [matched |-> m.hasPreviousCommentsDataMatched,
               equal |-> IF m.isPreviousCommentsDataEqual THEN "true" ELSE "false"],
              m.hasHeadlineMatched) * 2 * ScoreUnit

\* Two candidates equal in word overlap and id term: a has the sequential
\* context (previous comments) matched and not the headline, b the headline
\* and not the sequential context.
ContextAgainstHeadline(a, b) ==
  /\ a.wordOverlap = b.wordOverlap
  /\ a.hasIdMatched = b.hasIdMatched
  /\ a.hasPreviousCommentsDataMatched /\ ~b.hasPreviousCommentsDataMatched
  /\ a.hasHeadlineMatched = 0 /\ b.hasHeadlineMatched = 1

\* Two candidates equal in word overlap and sequential context: a has the
\* headline matched and not the id, b the id and not the headline.
HeadlineAgainstId(a, b) ==
  /\ a.wordOverlap = b.wordOverlap
  /\ a.hasPreviousCommentsDataMatched = b.hasPreviousCommentsDataMatched
  /\ a.hasHeadlineMatched = 1 /\ b.hasHeadlineMatched = 0
  /\ ~a.hasIdMatched /\ b.hasIdMatched

\* C20 as stated: of two candidates that are otherwise equal, the one with
\* the sequential-context match scores more than the one with the headline
\* match, and the one with the headline match more than the one with the id
\* match.
C20_ContextOverHeadlineOverId ==
  Called =>
    \A a, b \in Candidates :
      /\ ContextAgainstHeadline(a, b) => a.score > b.score
      /\ HeadlineAgainstId(a, b) => a.score > b.score

\* C20 amended: the headline match adds 1 and the sequential-context match
\* 0.5, so with equal bonus terms the candidate with the headline match
\* scores 0.5 more; the candidate with the sequential-context match scores
\* more only when that match earns it a greater bonus term. The headline
\* match outweighs the id match.
C20_HeadlineOverContextOverId ==
  Called =>
    \A a, b \in Candidates :
      /\ ContextAgainstHeadline(a, b) =>
           /\ BonusTerm(a) = BonusTerm(b) => b.score = a.score + ScoreUnit \div 2
           /\ a.score > b.score <=> BonusTerm(a) > BonusTerm(b)
      /\ HeadlineAgainstId(a, b) => a.score > b.score

\* The candidate with the headline match is located, the other has the
\* sequential context matched and the same bonus term.
C20_Witness ==
  /\ Located
  /\ \E a, b \in Candidates :
       /\ ContextAgainstHeadline(a, b)
       /\ BonusTerm(a) = BonusTerm(b)
       /\ lastCall.match = b

\* A candidate with the headline match stands against one with the id match.
C20_WitnessId ==
  Called /\ \E a, b \in Candidates : HeadlineAgainstId(a, b) /\ a.score > b.score

\* C18: locateInCode called with an explicit snapshot of the page's code
\* leaves inCode exactly as it was, whether it succeeds or fails.
C18_SnapshotCallLeavesInCode ==
  [][(lastCall'.status # "none" /\ lastCall'.snapshot # "none") => inCode' = inCode]_vars

\* C19: on the write path a failed attempt leaves inCode null: after a
\* getCode call that failed, inCode is null.
C19_FailedGetCodeLeavesInCodeNull ==
  [][(getCodeCall # "failed" /\ getCodeCall' = "failed") => inCode' = Null]_vars

\* The candidates whose body is not directly preceded by a heading.
CandidatesWithoutHeading ==
  {j \in SignatureMatches(signatures, target) : signatures[j].heading = "none"}

\* C27: when the target follows a heading, a candidate whose body is not
\* directly preceded by a heading has the headline term -5 and a score that
\* does not exceed 2.5, and locateInCode never returns it, whatever its word
\* overlap and even when it is the only candidate.
C27_CandidateWithoutHeadingNeverLocated ==
  (Called /\ target.followsHeading) =>
    /\ \A j \in CandidatesWithoutHeading :
         /\ MatchObject(signatures, target, j).hasHeadlineMatched = NoHeadingPenalty
         /\ MatchObject(signatures, target, j).score <= ScoreThreshold
         /\ Located => lastCall.match.id # j - 1
    /\ (CandidatesWithoutHeading = SignatureMatches(signatures, target)) => Failed

\* The only candidate has no heading before it, overlaps fully with the
\* target's text, has the target's id and the previous comment before it,
\* and the call fails.
C27_Witness ==
  /\ Called /\ target.followsHeading /\ Failed
  /\ HasOnlyCandidate
  /\ CandidatesWithoutHeading = {OnlyCandidate}
  /\ signatures[OnlyCandidate].wordOverlap = FullWordOverlap
  /\ target.id = OnlyCandidate - 1
  /\ PreviousCommentsData(signatures, target, OnlyCandidate).matched

-----------------------------------------------------------------------------
(* Properties of the mutator *)

\* modifyCode was called with the action, and returned or threw.
Did(action) == modified.status # "none" /\ modified.action = action

Threw(code) ==
  modified.status = "error" /\ modified.type = "parse" /\ modified.code = code

\* The branch of a deletion that removes the whole section.
InSectionBranch == comment.isOpeningSection /\ thisInCode.headingStartIndex # -1

\* The span of the page code an action that returned has replaced.
Span ==
  IF modified.action = "reply"
  THEN [start |-> Len(modified.codeBeforeInsertion),
        end |-> Len(modified.codeBeforeInsertion)]
  ELSE IF modified.action = "edit"
  THEN [start |-> thisInCode.lineStartIndex, end |-> thisInCode.signatureEndIndex]
  ELSE IF InSectionBranch
  THEN [start |-> SectionInCode(pageCode, thisInCode).startIndex,
        end |-> SectionInCode(pageCode, thisInCode).contentEndIndex]
  ELSE [start |-> thisInCode.lineStartIndex, end |-> thisInCode.signatureEndIndex + 1]

Inserted == IF modified.action = "delete" THEN <<>> ELSE modified.commentCode

\* C5: whatever the action, the new page code modifyCode returns is the page
\* code before the span, the inserted code (none when deleting) and the page
\* code after the span; both parts are those of the page code itself, and
\* neither \x01 nor \x02 of the masked copy shows up in it.
C5_OutputIsPrefixInsertedSuffix ==
  modified.status = "ok" =>
    /\ Span.start <= Span.end
    /\ Span.end <= Len(pageCode)
    /\ modified.newPageCode =
         Slice(pageCode, 0, Span.start) \o Inserted \o SliceFrom(pageCode, Span.end)
    /\ modified.action # "delete" =>
         modified.codeBeforeInsertion = Slice(pageCode, 0, Span.start)
    /\ modified.action = "reply" => Span.start >= thisInCode.signatureEndIndex
    /\ X01 \notin Range(modified.newPageCode)
    /\ X02 \notin Range(modified.newPageCode)

\* A reply is put in after an HTML comment that follows the target.
C5_Witness ==
  /\ Did("reply") /\ modified.status = "ok"
  /\ \E i \in thisInCode.signatureEndIndex..(Span.start - 1) : pageCode[i + 1] = "<"
  /\ HideDistractingCode(pageCode) # pageCode
  /\ Span.start < Len(pageCode)

\* C6: an edit that puts in the comment's own code, as it stands in the page
\* from the start of its line to the end of its signature, returns the page
\* code unchanged.
C6_EditWithOwnCodeIsIdentity ==
  (Did("edit") /\ modified.commentCode = OwnCode(pageCode, thisInCode)) =>
    /\ modified.status = "ok"
    /\ modified.newPageCode = pageCode

\* The own code of an indented comment in the middle of a page is put back
\* in.
C6_Witness ==
  /\ Did("edit") /\ modified.status = "ok"
  /\ modified.commentCode = OwnCode(pageCode, thisInCode)
  /\ thisInCode.lineStartIndex > 0
  /\ thisInCode.signatureEndIndex + 1 < Len(pageCode)
  /\ thisInCode.indentationChars # <<>>
  /\ thisInCode.startIndex # thisInCode.lineStartIndex

\* The number of indentation characters at index p.
MarkersAt(code, p) == RunEnd(code, p, IndentationChars) - p

\* The index at which the line after the signature's line starts.
FollowingLineStart == LineEnd(pageCode, thisInCode.signatureEndIndex) + 1

OwnIndentation == Len(thisInCode.indentationChars)

\* The line after the signature's line is a reply to the comment: it starts
\* with more indentation characters than the comment has and holds a
\* signature.
ReplyFollows ==
  /\ MarkersAt(pageCode, FollowingLineStart) > OwnIndentation
  /\ \E i \in FollowingLineStart..(LineEnd(pageCode, FollowingLineStart) - 1) :
       pageCode[i + 1] = SignatureChar

\* C7: the deletion of a comment (the branch that removes the comment alone)
\* throws 'delete-repliesToComment' whenever the line after the signature's
\* line is a reply, with more indentation characters than the comment has;
\* it returns when no line follows or the following line has text and no
\* more indentation characters than the comment.
C7_DeleteFailsWhenReplyFollows ==
  (Did("delete") /\ ~InSectionBranch) =>
    /\ ReplyFollows => Threw("delete-repliesToComment")
    /\ (\/ FollowingLineStart >= Len(pageCode)
        \/ /\ CharAt(pageCode, FollowingLineStart) # NL
           /\ MarkersAt(pageCode, FollowingLineStart) <= OwnIndentation)
         => modified.status = "ok"

\* The number of signatures between two indices of the page code.
SignaturesWithin(start, end) ==
  Cardinality({i \in start..(end - 1) : CharAt(pageCode, i) = SignatureChar})

C8_WitnessThrown ==
  /\ Did("delete") /\ InSectionBranch /\ Threw("delete-repliesInSection")
  /\ SignaturesWithin(SectionInCode(pageCode, thisInCode).startIndex,
                      SectionInCode(pageCode, thisInCode).contentEndIndex) = 2

\* The next line with text after the signature's line does not start with
\* more indentation characters than the comment has.
NoDependentReply ==
  MarkersAt(pageCode,
            RunEnd(pageCode, LineEnd(pageCode, thisInCode.signatureEndIndex), {NL}))
    <= OwnIndentation

\* C9 (as stated): the deletion of a comment that opens no section and has no
\* reply returns the page code before lineStartIndex followed by the page
\* code from signatureEndIndex on.
C9_DeleteRemovesLineStartToSignatureEnd ==
  (Did("delete") /\ ~comment.isOpeningSection) =>
    /\ NoDependentReply => modified.status = "ok"
    /\ modified.status = "ok" =>
         modified.newPageCode =
           Slice(pageCode, 0, thisInCode.lineStartIndex)
             \o SliceFrom(pageCode, thisInCode.signatureEndIndex)

\* C9 (amended): the deletion of a comment that opens no section and has no
\* reply returns the page code before lineStartIndex followed by the page
\* code from signatureEndIndex + 1 on: the character after the signature, the
\* line break that ends its line, is removed with the comment.
C9_DeleteRemovesThroughCharAfterSignature ==
  (Did("delete") /\ ~comment.isOpeningSection) =>
    /\ NoDependentReply => modified.status = "ok"
    /\ modified.status = "ok" =>
         modified.newPageCode =
           Slice(pageCode, 0, thisInCode.lineStartIndex)
             \o SliceFrom(pageCode, thisInCode.signatureEndIndex + 1)

\* A comment between two others of its level is deleted, line break and all.
C9_Witness ==
  /\ Did("delete") /\ ~comment.isOpeningSection /\ modified.status = "ok"
  /\ NoDependentReply
  /\ thisInCode.lineStartIndex > 0
  /\ thisInCode.signatureEndIndex + 1 < Len(pageCode)
  /\ CharAt(pageCode, thisInCode.signatureEndIndex) = NL
  /\ Len(modified.newPageCode) =
       Len(pageCode) - (thisInCode.signatureEndIndex + 1 - thisInCode.lineStartIndex)

\* The index after the lines that start with indentation characters, from
\* the line that starts at p on.
RECURSIVE ChainEnd(_, _)
ChainEnd(code, p) ==
  IF p < Len(code) /\ code[p + 1] \in IndentationChars
  THEN ChainEnd(code, LineEnd(code, p) + 1)
  ELSE p

\* A comment of level 0 on a line without indentation, with indented lines
\* right after it.
Level0WithReplyChain ==
  /\ comment.level = 0
  /\ RenderedLevel(pageCode, comment.k) = 0
  /\ CharAt(pageCode, FollowingLineStart) \in IndentationChars

\* C10: a reply to a comment of level 0 that indented lines follow is
\* inserted after the last of those lines, not right after the line of the
\* target's signature.
C10_ReplyGoesAfterReplyChain ==
  (Did("reply") /\ Level0WithReplyChain) =>
    /\ modified.status = "ok"
    /\ Len(modified.codeBeforeInsertion) >= ChainEnd(pageCode, FollowingLineStart)
    /\ Len(modified.codeBeforeInsertion) > FollowingLineStart

\* The reply is put between the end of the chain and a line that follows it.
C10_Witness ==
  /\ Did("reply") /\ Level0WithReplyChain /\ modified.status = "ok"
  /\ Len(modified.codeBeforeInsertion) = ChainEnd(pageCode, FollowingLineStart)
  /\ ChainEnd(pageCode, FollowingLineStart) < Len(pageCode)

\* The code of the comment from the start of its line to the end of its
\* signature.
CommentRegion == Slice(pageCode, thisInCode.lineStartIndex, thisInCode.signatureEndIndex)

\* The comment's code is one line.
OneLineComment == NL \notin Range(CommentRegion)

\* The indentation characters the reply indentation is built from: those of
\* the comment's last line when the comment opens no section and its last
\* line, after a line break, is indented; else those found for the comment.
ReplyBase ==
  IF ~comment.isOpeningSection /\ LastLineIndentation(CommentRegion) # <<>>
  THEN LastLineIndentation(CommentRegion)
  ELSE thisInCode.originalIndentationChars

\* C12 (as stated): the reply indentation characters of a located comment are
\* the comment's own indentation characters followed by the default marker,
\* one character longer than the comment's indentation; modifyCode never
\* makes them longer than that. Stated for comments whose level is the one
\* their signature's line is indented to.
C12_ReplyIndentationIsOwnPlusOne ==
  (thisInCode # Null /\ comment.level = RenderedLevel(pageCode, comment.k)) =>
    /\ modified.status = "none" =>
         thisInCode.replyIndentationChars =
           thisInCode.originalIndentationChars \o <<DefaultIndentationChar>>
    /\ Len(thisInCode.replyIndentationChars)
         <= Len(thisInCode.originalIndentationChars) + 1

\* C12 (amended): the reply indentation characters of a located comment are
\* the indentation characters of the comment's last line, when the comment
\* opens no section and that line follows a line break and is indented, else
\* the comment's own indentation characters, followed by the default marker;
\* for a comment of one line they are its own followed by the marker; and
\* modifyCode never makes them longer than that.
C12_ReplyIndentationIsLastLinePlusOne ==
  thisInCode # Null =>
    /\ modified.status = "none" =>
         thisInCode.replyIndentationChars = ReplyBase \o <<DefaultIndentationChar>>
    /\ (modified.status = "none" /\ OneLineComment) =>
         thisInCode.replyIndentationChars =
           thisInCode.originalIndentationChars \o <<DefaultIndentationChar>>
    /\ Len(thisInCode.replyIndentationChars) <= Len(ReplyBase) + 1
    /\ Len(thisInCode.replyIndentationChars) >= 1

\* A reply after a neighbouring reply of another flavour has changed the
\* reply indentation characters of a comment whose last line is indented
\* deeper than its first.
C12_Witness ==
  /\ Did("reply")
  /\ thisInCode.replyIndentationChars # ReplyBase \o <<DefaultIndentationChar>>
  /\ Len(thisInCode.replyIndentationChars) = Len(ReplyBase) + 1

\* The last line of a located comment is indented deeper than its first.
C12_WitnessLastLine ==
  /\ thisInCode # Null /\ modified.status = "none"
  /\ Len(ReplyBase) > Len(thisInCode.originalIndentationChars)
  /\ thisInCode.originalIndentationChars # <<>>

\* A reply that follows a reply with the same code, the page code and the
\* located-comment data object being those of the first call.
RepliedAgain ==
  /\ Did("reply") /\ modified.status = "ok"
  /\ modified'.status = "ok" /\ modified'.action = "reply"
  /\ modified'.commentCode = modified.commentCode
  /\ pageCode' = pageCode

FirstHeadingStartFrom(code, from) ==
  LET P == {p \in from..(Len(code) - 1) : AtLineStart(code, p) /\ HeadingLineEnd(code, p) # -1}
  IN IF P = {} THEN Len(code) ELSE CHOOSE p \in P : \A q \in P : p <= q

-----------------------------------------------------------------------------
(* Properties of the mutator on pages with tables *)

\* The comment is the only one of its table and the line after the
\* signature's line closes the table.
TableClosesAfterComment ==
  /\ comment.isInSingleCommentTable
  /\ StartsWith(SliceFrom(pageCode, FollowingLineStart), <<"|", "}", NL>>)

\* C11 (as stated): a reply to the only comment of a table, with the closing
\* "|}" right after the place found for the reply, is inserted before the
\* "|}".
C11_ReplyGoesBeforeTableEnd ==
  (Did("reply") /\ TableClosesAfterComment) =>
    /\ modified.status = "ok"
    /\ Len(modified.codeBeforeInsertion) = FollowingLineStart

\* C11 (amended): a reply to the only comment of a table, with the closing
\* "|}" right after the place found for the reply, is inserted after the line
\* of the "|}", not before it.
C11_ReplyGoesAfterTableEnd ==
  (Did("reply") /\ TableClosesAfterComment) =>
    /\ modified.status = "ok"
    /\ Len(modified.codeBeforeInsertion) = FollowingLineStart + 3
    /\ modified.newPageCode =
         Slice(pageCode, 0, FollowingLineStart) \o <<"|", "}", NL>>
           \o modified.commentCode \o SliceFrom(pageCode, FollowingLineStart + 3)

\* The reply is put between the end of the table and a comment after it.
C11_Witness ==
  /\ Did("reply") /\ TableClosesAfterComment /\ modified.status = "ok"
  /\ Len(modified.codeBeforeInsertion) = FollowingLineStart + 3
  /\ StartsWith(pageCode, <<"{", "|", NL>>)

-----------------------------------------------------------------------------
(* Properties of the edit attribution search *)

AllCompareResps(states) == \A i \in 1..Len(revisions) : compareResps[i] \in states

SearchSettled == search.status \in {"returned", "thrown"}

\* findAddingEdit() has settled after all compare requests were answered.
Scored == SearchSettled /\ revisions # <<>> /\ AllCompareResps({"resolved"})

\* The revisions whose diff gave a match.
CandidateRevisions ==
  {i \in 1..Len(revisions) : HasAddedText(revisions[i]) /\ ~ParseThrows(revisions[i])}

NoParseThrows == \A i \in 1..Len(revisions) : ~ParseThrows(revisions[i])

OverHalf(i) == 2 * WordOverlapOf(revisions[i]) > FullOverlap

\* C13: given two candidate revisions of which only one has added text that
\* overlaps the comment by more than 50%, findAddingEdit returns that one,
\* whatever the distances in time of the two from the comment's date. (The
\* overlap of a revision is the one findAddingEdit computes for its match.)
C13_OnlyOverlappingCandidateIsReturned ==
  (Scored /\ NoParseThrows /\ Cardinality(CandidateRevisions) = 2)
    => \A i, j \in CandidateRevisions :
         (OverHalf(i) /\ ~OverHalf(j)) => search = ReturnedEdit(i)

C13_Witness ==
  /\ Scored /\ NoParseThrows /\ Cardinality(CandidateRevisions) = 2
  /\ \E i, j \in CandidateRevisions :
       /\ OverHalf(i) /\ ~OverHalf(j)
       /\ DateProximity(revisions[j]) < DateProximity(revisions[i])
       /\ search = ReturnedEdit(i)

\* C14: among the candidate revisions whose word overlap is equal and
\* maximal, findAddingEdit returns the one closest in time to the comment's
\* date (stated for a returned revision that overlaps by more than half).
C14_ClosestAmongEqualOverlapsIsReturned ==
  (Scored /\ search.status = "returned" /\ OverHalf(search.revision))
    => \A j \in CandidateRevisions :
         WordOverlapOf(revisions[j]) = WordOverlapOf(revisions[search.revision])
           => DateProximity(revisions[search.revision]) <= DateProximity(revisions[j])

\* C15: the failure of one compare request does not abort the search: if
\* another request is answered with a diff that has added text,
\* findAddingEdit returns a revision.
C15_FailedRequestDoesNotAbortSearch ==
  (/\ SearchSettled
   /\ AllCompareResps({"resolved", "rejected"})
   /\ \E i \in 1..Len(revisions) : compareResps[i] = "rejected"
   /\ \E j \in 1..Len(revisions) :
        compareResps[j] = "resolved" /\ HasAddedText(revisions[j]) /\ OverHalf(j)
   /\ \A k \in 1..Len(revisions) : compareResps[k] = "resolved" => ~ParseThrows(revisions[k]))
    => search.status = "returned"

\* C16: when the search fails inside thank(), an error is notified, no
\* 'thank' request is posted, the stored thanks are not changed, addingEdit
\* stays unset and the thank button is not pending.
C16_FailedSearchLeavesNoPartialState ==
  [][(search.status # "thrown" /\ search'.status = "thrown")
       => /\ notification' # Null /\ notification'.type = "error"
          /\ apiPosts' = apiPosts
          /\ thanks' = thanks
          /\ addingEdit' = Null
          /\ thankButton' = "idle"]_vars

C16_Witness ==
  /\ search = Thrown("parse")
  /\ revisions # <<>> /\ AllCompareResps({"resolved"})
  /\ notification # Null /\ notification.type = "error"
  /\ thankButton = "idle"
  /\ addingEdit = Null /\ apiPosts = {} /\ thanks = {}

-----------------------------------------------------------------------------
(* Properties of the page parse *)

CommentsProcessed ==
  pageFlags.exists /\ bootStep \in {"comments", "retracted", "sections", "thrown", "done"}
SectionsProcessed == pageFlags.exists /\ bootStep \in {"sections", "thrown", "done"}

\* The positions of the elements of a type that createComment / createSection
\* does (creations) for, in document order.
PositionsOf(type, creations) ==
  LET positions == {i \in 1..Len(rootElement) :
                      rootElement[i].type = type /\ rootElement[i].creation \in creations}
      RECURSIVE Ascending(_)
      Ascending(S) ==
        IF S = {}
        THEN <<>>
        ELSE LET least == CHOOSE i \in S : \A j \in S : i <= j
             IN <<least>> \o Ascending(S \ {least})
  IN Ascending(positions)

IsLogged(position) == \E n \in 1..Len(consoleErrors) : consoleErrors[n].target = position

Fired(hook) == \E n \in 1..Len(hooksFired) : hooksFired[n] = hook

\* Every other signature has its comment, every other heading its section,
\* in document order, and commentsReady has fired.
OthersAreRegistered ==
  /\ CommentsProcessed
       => comments = PositionsOf("signature", {"ok"}) /\ Fired("commentsReady")
  /\ SectionsProcessed => sections = PositionsOf("heading", {"ok"})

\* C17 as stated: an error raised while creating the comment of a signature
\* (or the section of a heading) is caught and logged and does not stop the
\* parse: every other signature has its comment, in document order, and
\* commentsReady fires.
C17_ErrorsAreLoggedAndOthersRegistered ==
  /\ OthersAreRegistered
  /\ CommentsProcessed
       => \A i \in 1..Len(rootElement) :
            (rootElement[i].type = "signature" /\ rootElement[i].creation # "ok")
              => IsLogged(i)
  /\ SectionsProcessed
       => \A i \in 1..Len(rootElement) :
            (rootElement[i].type = "heading" /\ rootElement[i].creation # "ok")
              => IsLogged(i)

\* C17 amended: the error is caught, and logged unless it is a CdError; the
\* rest as stated.
C17_ErrorsAreCaughtAndOthersRegistered ==
  /\ OthersAreRegistered
  /\ CommentsProcessed
       => \A i \in 1..Len(rootElement) :
            rootElement[i].type = "signature"
              => (IsLogged(i) <=> rootElement[i].creation = "Error")
  /\ SectionsProcessed
       => \A i \in 1..Len(rootElement) :
            rootElement[i].type = "heading"
              => (IsLogged(i) <=> rootElement[i].creation = "Error")

C17_Witness ==
  /\ bootStep = "sections"
  /\ \E i, j, k \in 1..Len(rootElement) :
       /\ i < j /\ j < k
       /\ rootElement[i].type = "signature" /\ rootElement[i].creation = "CdError"
       /\ rootElement[j].type = "heading" /\ rootElement[j].creation = "ok"
       /\ rootElement[k].type = "signature" /\ rootElement[k].creation = "ok"
       /\ comments = <<k>> /\ sections = <<j>>
       /\ ~IsLogged(i)
  /\ Fired("commentsReady")

\* The hooks of the script among the hooks fired in the current run.
ScriptHooks ==
  {"beforeParse", "commentsReady", "sectionsReady", "pageReady", "pageReadyFirstTime"}
FiredScriptHooks == SelectSeq(hooksFired, LAMBDA hook : hook \in ScriptHooks)

\* The hooks a run fires from its start to its end.
ExpectedHooks ==
  <<"beforeParse", "commentsReady", "sectionsReady", "pageReady">>
    \o (IF firstRun THEN <<"pageReadyFirstTime">> ELSE <<>>)

IsPrefix(a, b) == Len(a) <= Len(b) /\ SubSeq(b, 1, Len(a)) = a

\* C21: in a run on an existing page that is not retracted the hooks fire
\* in the order beforeParse, commentsReady, sectionsReady, pageReady, all of
\* them by the end of the run; pageReadyFirstTime fires, after pageReady,
\* exactly in the first run.
C21_HooksFireInOrder ==
  (pageFlags.exists /\ bootStep # "retracted") =>
    /\ IsPrefix(FiredScriptHooks, ExpectedHooks)
    /\ bootStep = "done" => FiredScriptHooks = ExpectedHooks
    /\ ~firstRun => ~Fired("pageReadyFirstTime")
    /\ (firstRun /\ bootStep = "done") =>
         hooksFired[Len(hooksFired)] = "pageReadyFirstTime"

\* A reload has run to its end, with the hook for the author wrappers fired
\* between sectionsReady and pageReady.
C21_Witness ==
  /\ pageFlags.exists /\ bootStep = "done" /\ ~firstRun
  /\ hooksFired =
       <<"beforeParse", "commentsReady", "sectionsReady", "authorWrappers", "pageReady">>
  /\ eventListeners = 1

\* The first run has ended with pageReadyFirstTime.
C21_WitnessFirstRun ==
  /\ pageFlags.exists /\ bootStep = "done" /\ firstRun
  /\ hooksFired =
       <<"beforeParse", "commentsReady", "sectionsReady", "pageReady", "pageReadyFirstTime">>

\* The first run has found no comment on a page that is not definitely a
\* talk page.
NoCommentOnFirstRun ==
  /\ firstRun /\ ~pageFlags.definitelyTalkPage
  /\ bootStep = IF pageFlags.exists THEN "comments" ELSE "setup"
  /\ PositionsOf("signature", {"ok"}) = <<>>

\* C24: on a first run of a page that is not definitely a talk page and on
\* which no comment was found, execute retracts talk-pageness, hides the
\* loading overlay and returns before the sections are processed: no
\* sectionsReady, pageReady or pageReadyFirstTime has fired, no section is
\* registered and no event listener is added. On a reload talk-pageness is
\* never retracted.
C24_RetractsOnlyOnFirstRun ==
  [][/\ (NoCommentOnFirstRun /\ bootStep' # bootStep) => bootStep' = "retracted"
     /\ bootStep' = "retracted" =>
          /\ firstRun' /\ ~talkPage' /\ ~loadingOverlay'
          /\ sections' = <<>> /\ eventListeners' = 0
          /\ hooksFired' \in {<<>>, <<"beforeParse", "commentsReady">>}
          /\ UNCHANGED <<hooksFired, sections, eventListeners>>
     /\ ~firstRun' => (talkPage' /\ bootStep' # "retracted")
     /\ (talkPage /\ ~talkPage') => (NoCommentOnFirstRun /\ bootStep' = "retracted")]_vars

\* Talk-pageness has been retracted on a page with a signature whose comment
\* could not be created.
C24_Witness ==
  /\ bootStep = "retracted" /\ ~talkPage /\ ~loadingOverlay
  /\ pageFlags.exists /\ ~pageFlags.definitelyTalkPage
  /\ Len(targets) = MaxTargets
  /\ \E i \in 1..Len(rootElement) : rootElement[i].type = "signature"
  /\ \E i \in 1..Len(rootElement) : rootElement[i].type = "heading"

-----------------------------------------------------------------------------
(* Properties of the entry point *)

LoadsNothing(run) == run.config = NoPromise /\ run.strings = NoPromise

\* C22: cd.isRunning, once true, is never reset; an invocation of app() made
\* while it is true returns without firing 'launched', loading the
\* configuration or the strings, or scheduling go(); so only the first
\* invocation can proceed.
C22_OnlyFirstInvocationProceeds ==
  [][/\ isRunning => isRunning'
     /\ (isRunning /\ Len(appRuns') > Len(appRuns)) =>
          /\ appRuns'[Len(appRuns')].step = "returned"
          /\ LoadsNothing(appRuns'[Len(appRuns')])
          /\ launched' = launched
          /\ goScheduled' = goScheduled
     /\ \A i \in 2..Len(appRuns') :
          appRuns'[i].step = "returned" /\ LoadsNothing(appRuns'[i])
     /\ launched' <= 1 /\ goScheduled' <= 1]_vars

\* The first invocation has scheduled go() and two more have returned.
C22_Witness ==
  /\ Len(appRuns) = 3
  /\ appRuns[1].step = "scheduled" /\ goScheduled = 1 /\ launched = 1
  /\ appRuns[2].step = "returned" /\ appRuns[3].step = "returned"
  /\ isRunning

Finished(run) == run.step \in {"scheduled", "failed"}

\* C25: an invocation of app() with a failure to load the localization
\* strings and none to load the configuration ends with go() scheduled, and
\* an invocation with a failure to load the configuration never has go()
\* scheduled.
C25_OnlyConfigFailurePreventsGo ==
  \A i \in 1..Len(appRuns) :
    /\ (Finished(appRuns[i]) /\ appRuns[i].strings.failed /\ ~appRuns[i].config.failed)
         => appRuns[i].step = "scheduled"
    /\ appRuns[i].config.failed => appRuns[i].step # "scheduled"

-----------------------------------------------------------------------------
(* Properties of the table of contents *)

\* Section j is the nearest section before section i with a strictly lower
\* level.
IsNearestLower(secs, j, i) ==
  /\ j \in 1..(i - 1)
  /\ secs[j].level < secs[i].level
  /\ \A k \in (j + 1)..(i - 1) : secs[k].level >= secs[i].level

\* C26: after addNewSections has gone through the sections, every section
\* has as parent the nearest preceding section of a strictly lower level
\* (none when there is no such section) and a tocLevel of 1 without a parent
\* and of the parent's tocLevel + 1 with one; tocLevel is at least 1 and
\* exceeds the previous section's tocLevel by at most 1.
C26_TocLevelsFollowParents ==
  tocCall = "done" =>
    \A i \in 1..Len(tocSections) :
      LET section == tocSections[i]
      IN /\ IF \E j \in 1..(i - 1) : tocSections[j].level < section.level
            THEN IsNearestLower(tocSections, section.parent, i)
            ELSE section.parent = 0
         /\ section.tocLevel =
              IF section.parent = 0 THEN 1 ELSE tocSections[section.parent].tocLevel + 1
         /\ section.tocLevel >= 1
         /\ i > 1 => section.tocLevel <= tocSections[i - 1].tocLevel + 1

\* A page that starts below the base level, with a gap between levels and a
\* return to a parentless section: levels 3, 4, 4, 2.
C26_Witness ==
  /\ tocCall = "done"
  /\ Len(tocSections) = 4
  /\ tocSections[1].level = 3 /\ tocSections[2].level = 4
  /\ tocSections[3].level = 4 /\ tocSections[4].level = 2
  /\ tocSections[3].parent = 1 /\ tocSections[3].tocLevel = 2
  /\ tocSections[4].parent = 0 /\ tocSections[4].tocLevel = 1

-----------------------------------------------------------------------------
(* Properties of the comment layers *)

\* C29: isHovered is true only if the underlay exists, so removing the
\* layers clears it, and it becomes true only with layers that exist and
\* with a comment that configureLayers() did not find moved.
C29_HoveredOnlyWithLayers ==
  [][/\ isHovered' => underlay'
     /\ (~isHovered /\ isHovered') => (underlay' /\ isMoved' # "true")
     /\ (underlay /\ ~underlay') => ~isHovered']_vars

\* The comment is hovered on layers created anew after the layers it was
\* flashed on were removed.
C29_Witness ==
  /\ isHovered /\ underlay /\ ~editForm
  /\ animatedBackground = "removed"
  /\ "hovered" \in classes
  /\ isMoved = "false"

\* C30: whenever isTarget is true it eventually becomes false again.
C30_TargetFlashEnds == isTarget ~> ~isTarget

====
